---- MODULE Spec2Model ----
(***************************************************************************)
(* amicompat-mcp: the status client (core/baseline_api.py), the handlers   *)
(* that drive it (mcp/handlers.py) and the analyzer (core/analyzer.py).    *)
(*                                                                         *)
(* asyncio is cooperative: the code between two awaits runs atomically, so *)
(* every action below is one such stretch of a coroutine.                  *)
(*                                                                         *)
(* Time is counted in hours (the unit of _cache_duration).  Strings that   *)
(* the code parses (versions, Retry-After, the concurrency variable) are   *)
(* sequences of one-character strings.  Scores are kept in tenths of a     *)
(* percent, the resolution of round(x, 1).                                 *)
(***************************************************************************)
EXTENDS Integers, Sequences, FiniteSets, TLC

VARIABLES
    env_max_conc,   \* os.environ AMICOMPAT_MAX_CONCURRENCY of the process
    now,            \* datetime.now(), in hours
    handler,        \* the handler (or caller) that owns the current client
    phase,          \* "none" | "resolving" | "ended" | "raised" | "formatted"
    target,         \* Analyzer.target of the run
    files_count,    \* len(files) of the run
    all_features,   \* audit_project / audit_file: ordered feature aggregates
    results,        \* what asyncio.gather returned, by position
    metrics,        \* Analyzer.analyze(all_features)
    file_score,     \* audit_file: file_score, in tenths
    max_conc,       \* size of BaselineAPI._semaphore
    semaphore,      \* BaselineAPI._semaphore: free slots
    client,         \* BaselineAPI._client
    close_failed,   \* whether the last aclose() raised (the logged warning)
    cache,          \* BaselineAPI._cache
    fid,            \* per call: the feature_id argument
    pc,             \* per call: position in get_feature_status
    response,       \* per call: the result of the request it awaits, once there
    wait_time,      \* per call: the delay of the asyncio.sleep it awaits, in seconds
    ret,            \* per call: the returned record
    logged,         \* per call: what its last log line reports
    report,         \* Formatter.format_report(all_features, metrics, len(files))
    directory,      \* Walker.scan: the directory it is given, as it is on disk
    max_files,      \* Walker.max_files
    scanned,        \* Walker.scan: the returned list
    visited,        \* Walker.scan: the directories _walk_directory was called on
    audits,         \* per audit_project invocation: its position, arguments and outcome
    last_report,    \* handlers._last_report
    last_charts,    \* handlers._last_charts
    retained_from,  \* history: the invocations that stored _last_report / _last_charts
    finished,       \* history: the invocations that returned, in the order they did
    served,         \* what the last resource or export request was answered
    content,        \* Detector: the text of the files read, in scan order
    detected        \* Detector: what detect returned for each of them

vars == <<env_max_conc, now, handler, phase, target, files_count, all_features,
          results, metrics, file_score, max_conc, semaphore, client, close_failed, cache,
          fid, pc, response, wait_time, ret, logged, report,
          directory, max_files, scanned, visited,
          audits, last_report, last_charts, retained_from, finished, served,
          content, detected>>

apiVars == <<max_conc, semaphore, client, cache>>
callVars == <<fid, pc, response, wait_time, ret, logged>>
runVars == <<handler, phase, target, files_count, all_features, results, metrics, file_score>>
\* What the actions of the status client and of its callers leave alone.
walkVars == <<directory, max_files, scanned, visited>>
auditVars == <<audits, last_report, last_charts, retained_from, finished, served>>
detectVars == <<content, detected>>
extraVars == <<report, walkVars, auditVars, detectVars>>

---------------------------------------------------------------------------
(* Bounds *)

\* The audit_project invocations of a server process.
MaxRuns == 2
Runs == 1..MaxRuns

\* The pieces a file's text is made of.
MaxSegments == 4

MaxCalls == 2
MaxTime == 1

Calls == 1..MaxCalls

---------------------------------------------------------------------------
(* Data *)

Features == {"css-has-selector", "js-optional-chaining"}
Browsers == {"chrome", "firefox", "safari", "edge"}
BrowserList == <<"chrome", "firefox", "safari", "edge">>

Digits == {"0", "1", "2", "3", "4", "5", "6", "7", "8", "9"}

DigitVal(c) ==
    CASE c = "0" -> 0 [] c = "1" -> 1 [] c = "2" -> 2 [] c = "3" -> 3
      [] c = "4" -> 4 [] c = "5" -> 5 [] c = "6" -> 6 [] c = "7" -> 7
      [] c = "8" -> 8 [] c = "9" -> 9

IsNumber(s) == Len(s) > 0 /\ \A i \in 1..Len(s) : s[i] \in Digits

RECURSIVE NumberVal(_)
NumberVal(s) ==
    IF Len(s) = 0 THEN 0
    ELSE 10 * NumberVal(SubSeq(s, 1, Len(s) - 1)) + DigitVal(s[Len(s)])

NoText == <<>>
Unknown == <<"u", "n", "k", "n", "o", "w", "n">>

\* One value of the response's "browsers" object: kind "absent" (no such
\* key), "dict" ({"version": v}, or {} when has_version is FALSE) or "str".
\* The version of a dict is a JSON string or, when is_int holds, a JSON
\* integer written by its decimal digits.
NoInfo == [kind |-> "absent", has_version |-> FALSE, version |-> NoText, is_int |-> FALSE]
StrInfo(v) == [kind |-> "str", has_version |-> TRUE, version |-> v, is_int |-> FALSE]
DictInfo(v) == [kind |-> "dict", has_version |-> TRUE, version |-> v, is_int |-> FALSE]
EmptyDictInfo ==
    [kind |-> "dict", has_version |-> FALSE, version |-> NoText, is_int |-> FALSE]
IntInfo(v) == [kind |-> "dict", has_version |-> TRUE, version |-> v, is_int |-> TRUE]

\* The decimal digits of the largest float, 1.797...e308.
FloatDigits == 309

\* 10 ** 309, an integer json.loads yields as an int.
HugeInt == [i \in 1..(FloatDigits + 1) |-> IF i = 1 THEN "1" ELSE "0"]

\* A JSON object of the remote service; "" stands for a missing key.
EmptyBody ==
    [id |-> "", baseline_status |-> "", has_browsers |-> FALSE,
     browsers |-> [b \in Browsers |-> NoInfo]]

WidelyBody(f) ==
    [id |-> f, baseline_status |-> "widely", has_browsers |-> TRUE,
     browsers |-> [b \in Browsers |->
        CASE b = "chrome" -> StrInfo(<<"1", "2", "1">>)
          [] b = "firefox" -> StrInfo(<<"1", "2", "2">>)
          [] b = "safari" -> StrInfo(<<"1", "7", ".", "4">>)
          [] b = "edge" -> DictInfo(<<"1", "2", "1">>)]]

NewlyBody(f) ==
    [id |-> f, baseline_status |-> "newly", has_browsers |-> TRUE,
     browsers |-> [b \in Browsers |->
        CASE b = "chrome" -> DictInfo(<<"1", "2", "0">>)
          [] b = "firefox" -> StrInfo(<<"1", "2", "2", ".", "0">>)
          [] b = "safari" -> StrInfo(<<"p", "r", "e">>)
          [] b = "edge" -> NoInfo]]

LimitedBody(f) ==
    [id |-> f, baseline_status |-> "limited", has_browsers |-> TRUE,
     browsers |-> [b \in Browsers |->
        CASE b = "chrome" -> StrInfo(<<"1", "2", "5">>)
          [] b = "firefox" -> EmptyDictInfo
          [] b = "safari" -> NoInfo
          [] b = "edge" -> NoInfo]]

\* A body whose chrome version is the integer 10 ** 309.
HugeBody(f) ==
    [id |-> f, baseline_status |-> "newly", has_browsers |-> TRUE,
     browsers |-> [b \in Browsers |->
        CASE b = "chrome" -> IntInfo(HugeInt)
          [] b = "firefox" -> StrInfo(<<"1", "2", "2">>)
          [] b = "safari" -> NoInfo
          [] b = "edge" -> NoInfo]]

\* What the service may hold for a feature.
Bodies(f) ==
    IF f = "css-has-selector" THEN {LimitedBody(f), EmptyBody}
    ELSE {WidelyBody(f), NewlyBody(f)}

\* What one request to the transport comes back with: an exception (kind
\* "timeout", "connect", "error") or an HTTP response.  json_ok is FALSE
\* when response.json() or the normalisation of its value raises; obj is
\* the top-level object, data its "data" array.
Http(status, retry_after, json_ok, obj, data) ==
    [kind |-> "http", status |-> status, retry_after |-> retry_after,
     json_ok |-> json_ok, obj |-> obj, data |-> data]
Raised(kind) ==
    [kind |-> kind, status |-> 0, retry_after |-> NoText,
     json_ok |-> FALSE, obj |-> EmptyBody, data |-> <<>>]
NoResponse == Raised("none")

RetryAfterValues == {NoText, <<"2">>, <<"s", "o", "o", "n">>}

DirectResponses(f) ==
    {Http(200, NoText, TRUE, b, <<>>) : b \in Bodies(f)}
    \cup {Http(200, NoText, FALSE, EmptyBody, <<>>)}
    \cup {Http(429, ra, TRUE, EmptyBody, <<>>) : ra \in RetryAfterValues}
    \cup {Http(404, NoText, TRUE, EmptyBody, <<>>),
          Http(500, NoText, TRUE, EmptyBody, <<>>)}
    \cup {Raised("timeout"), Raised("error")}

\* The retry's Retry-After header is never read.
RetryResponses(f) == {r \in DirectResponses(f) : r.status = 429 => r.retry_after = NoText}

SearchResponses(f) ==
    {Http(200, NoText, TRUE, EmptyBody, <<b>>) : b \in Bodies(f)}
    \cup {Http(200, NoText, TRUE, EmptyBody, <<>>),
          Http(200, NoText, FALSE, EmptyBody, <<>>),
          Http(404, NoText, TRUE, EmptyBody, <<>>),
          Http(500, NoText, TRUE, EmptyBody, <<>>)}
    \cup {Raised("timeout")}

\* A normalised status record.
NoBrowsers ==
    [b \in Browsers |-> [present |-> FALSE, version |-> NoText, is_int |-> FALSE]]
NoRecord ==
    [id |-> "", baseline_status |-> "none", browsers |-> NoBrowsers, error |-> FALSE]

---------------------------------------------------------------------------
(* BaselineAPI *)

DefaultMaxConc == 5
CacheDuration == 1
DefaultWait == 1

\* A value of os.getenv: set is FALSE when the variable is not defined.
EnvUnset == [set |-> FALSE, text |-> NoText]
EnvText(s) == [set |-> TRUE, text |-> s]
EnvValues == {EnvUnset, EnvText(<<"0">>), EnvText(<<"2">>)}

\* BaselineAPI.__init__, lines 21-24: max(1, int(getenv(.., "5"))), 5 when
\* int() raises ValueError.
MaxConcOf(env) ==
    IF ~env.set THEN DefaultMaxConc
    ELSE IF ~IsNumber(env.text) THEN DefaultMaxConc
    ELSE IF NumberVal(env.text) < 1 THEN 1 ELSE NumberVal(env.text)

NoEntry == [present |-> FALSE, data |-> NoRecord, timestamp |-> 0]
Entry(data, timestamp) == [present |-> TRUE, data |-> data, timestamp |-> timestamp]

\* BaselineAPI.__init__, line 18: every instance starts with its own cache.
NewCache == [f \in Features |-> NoEntry]

\* Mutant: the age test of line 58 the wrong way round.
CacheFreshInverted(entry, t) == entry.present /\ t - entry.timestamp >= CacheDuration

\* get_feature_status, lines 56-58.
CacheFresh(entry, t) == entry.present /\ t - entry.timestamp < CacheDuration

\* Mutant: the fetch section entered without waiting for a slot.
CanAcquireAlways(sem) == TRUE

\* asyncio.Semaphore.acquire returns at once when a slot is free.
CanAcquire(sem) == sem > 0

\* Mutant: no default when the header is missing or unparsable.
WaitTimeNoDefault(retry_after) ==
    IF IsNumber(retry_after) THEN NumberVal(retry_after) ELSE 0

\* get_feature_status, lines 70-75.
WaitTime(retry_after) ==
    IF retry_after = NoText THEN DefaultWait
    ELSE IF IsNumber(retry_after) THEN NumberVal(retry_after)
    ELSE DefaultWait

\* _extract_status.
ExtractStatus(data) ==
    [id |-> data.id,
     baseline_status |->
        IF data.baseline_status = "" THEN "limited" ELSE data.baseline_status,
     browsers |-> [b \in Browsers |->
        LET info == data.browsers[b] IN
        IF ~data.has_browsers \/ info.kind = "absent"
          THEN [present |-> FALSE, version |-> NoText, is_int |-> FALSE]
        ELSE IF info.kind = "dict"
          THEN [present |-> TRUE,
                version |-> IF info.has_version THEN info.version ELSE Unknown,
                is_int |-> info.has_version /\ info.is_int]
        ELSE [present |-> TRUE, version |-> info.version, is_int |-> FALSE]],
     error |-> FALSE]

\* get_feature_status, lines 127-133.
Synthetic(f) ==
    [id |-> f, baseline_status |-> "limited", browsers |-> NoBrowsers, error |-> TRUE]

\* Mutant: the expired entry is not used.
FallbackSyntheticOnly(c, f) == Synthetic(f)

\* get_feature_status, lines 118-133: what a failed lookup returns.
Fallback(c, f) == IF c[f].present THEN c[f].data ELSE Synthetic(f)

\* The log line a failed lookup ends with: line 122 or line 126.
FallbackLog(c, f) == IF c[f].present THEN "expired_cache" ELSE "no_data"

\* Mutant: a fetched record is returned without being written to the cache.
StoreNothing(c, f, result, t) == c

\* Mutant: an entry that exists is not replaced.
StoreIfAbsent(c, f, result, t) ==
    IF c[f].present THEN c ELSE [c EXCEPT ![f] = Entry(result, t)]

\* get_feature_status, lines 92 and 104.
Store(c, f, result, t) == [c EXCEPT ![f] = Entry(result, t)]

\* Mutant: the reference is dropped only when aclose() returns.
AexitNoFinally(cl, close_raises) == IF close_raises THEN cl ELSE "None"

\* __aexit__: the reference is dropped in the finally clause.
Aexit(cl, close_raises) == "None"

\* The call leaves the fetch section with a normalised record (lines
\* 91-94 and 103-106); the slot is released on the way out.
Succeed(t, result) ==
    /\ cache' = Store(cache, fid[t], result, now)
    /\ ret' = [ret EXCEPT ![t] = result]
    /\ pc' = [pc EXCEPT ![t] = "done"]
    /\ logged' = [logged EXCEPT ![t] = "fetched"]
    /\ semaphore' = semaphore + 1
    /\ UNCHANGED wait_time

\* Mutant: the record a failed lookup falls back to is written to the cache.
FailCachingFallback(t) ==
    /\ cache' = [cache EXCEPT ![fid[t]] = Entry(Fallback(cache, fid[t]), now)]
    /\ ret' = [ret EXCEPT ![t] = Fallback(cache, fid[t])]
    /\ pc' = [pc EXCEPT ![t] = "done"]
    /\ logged' = [logged EXCEPT ![t] = FallbackLog(cache, fid[t])]
    /\ semaphore' = semaphore + 1
    /\ UNCHANGED wait_time

\* Mutant: the slot is not released when the call leaves on a failure.
FailKeepingSlot(t) ==
    /\ cache' = cache
    /\ ret' = [ret EXCEPT ![t] = Fallback(cache, fid[t])]
    /\ pc' = [pc EXCEPT ![t] = "done"]
    /\ logged' = [logged EXCEPT ![t] = FallbackLog(cache, fid[t])]
    /\ semaphore' = semaphore
    /\ UNCHANGED wait_time

\* The call leaves the fetch section without one (lines 95-99, 108-133).
Fail(t) ==
    /\ cache' = cache
    /\ ret' = [ret EXCEPT ![t] = Fallback(cache, fid[t])]
    /\ pc' = [pc EXCEPT ![t] = "done"]
    /\ logged' = [logged EXCEPT ![t] = FallbackLog(cache, fid[t])]
    /\ semaphore' = semaphore + 1
    /\ UNCHANGED wait_time

\* Lines 62-66, once the slot is held: the assertion fails without a
\* client (the slot is taken and released), otherwise the direct fetch is
\* sent.
Enter(t) ==
    IF client = "None"
      THEN /\ ret' = [ret EXCEPT ![t] = Fallback(cache, fid[t])]
           /\ pc' = [pc EXCEPT ![t] = "done"]
           /\ logged' = [logged EXCEPT ![t] = FallbackLog(cache, fid[t])]
           /\ semaphore' = semaphore
      ELSE /\ ret' = ret
           /\ pc' = [pc EXCEPT ![t] = "direct"]
           /\ logged' = logged
           /\ semaphore' = semaphore - 1

\* get_feature_status from its first line to its first suspension.
Begin(t) ==
    /\ phase = "resolving"
    /\ pc[t] = "pending"
    /\ \A u \in Calls : u < t => pc[u] # "pending"
    /\ IF CacheFresh(cache[fid[t]], now)
         THEN /\ ret' = [ret EXCEPT ![t] = cache[fid[t]].data]
              /\ pc' = [pc EXCEPT ![t] = "done"]
              /\ UNCHANGED <<semaphore, logged>>
         ELSE IF CanAcquire(semaphore)
           THEN Enter(t)
           ELSE /\ pc' = [pc EXCEPT ![t] = "acquire"]
                /\ UNCHANGED <<semaphore, ret, logged>>
    /\ UNCHANGED <<env_max_conc, now, runVars, max_conc, client, close_failed, cache,
                   fid, response, wait_time>>
    /\ UNCHANGED extraVars

\* A call waiting at line 62 gets a slot.
Admit(t) ==
    /\ pc[t] = "acquire"
    /\ CanAcquire(semaphore)
    /\ Enter(t)
    /\ UNCHANGED <<env_max_conc, now, runVars, max_conc, client, close_failed, cache,
                   fid, response, wait_time>>
    /\ UNCHANGED extraVars

\* The transport completes the request a call is suspended on: the awaited
\* future gets its result (or its exception).
Arrive(t, at, r) ==
    /\ pc[t] = at
    /\ pc' = [pc EXCEPT ![t] = "got_" \o at]
    /\ response' = [response EXCEPT ![t] = r]
    /\ UNCHANGED <<env_max_conc, now, runVars, apiVars, close_failed, fid, wait_time, ret,
                   logged>>
    /\ UNCHANGED extraVars

\* Lines 66-109 for the response to a direct fetch; first is FALSE for the
\* response to the retry of line 79.
HandleDirect(t, r, first) ==
    IF r.kind # "http" THEN Fail(t)
    ELSE IF r.status = 429 /\ first
      THEN /\ pc' = [pc EXCEPT ![t] = "sleep"]
           /\ wait_time' = [wait_time EXCEPT ![t] = WaitTime(r.retry_after)]
           /\ UNCHANGED <<cache, ret, semaphore, logged>>
    ELSE IF r.status = 404
      THEN /\ pc' = [pc EXCEPT ![t] = "search"]
           /\ UNCHANGED <<cache, ret, semaphore, wait_time, logged>>
    ELSE IF r.status = 200 /\ r.json_ok
      THEN Succeed(t, ExtractStatus(r.obj))
    ELSE Fail(t)

\* The call resumes with the response to its first direct fetch.
AfterDirect(t) ==
    /\ pc[t] = "got_direct"
    /\ HandleDirect(t, response[t], TRUE)
    /\ response' = [response EXCEPT ![t] = NoResponse]
    /\ UNCHANGED <<env_max_conc, now, runVars, max_conc, client, close_failed, fid>>
    /\ UNCHANGED extraVars

\* asyncio.sleep(wait_time) is over: the retry of line 79 is sent.
Wake(t) ==
    /\ pc[t] = "sleep"
    /\ pc' = [pc EXCEPT ![t] = "retry"]
    /\ wait_time' = [wait_time EXCEPT ![t] = 0]
    /\ UNCHANGED <<env_max_conc, now, runVars, apiVars, close_failed, fid, response, ret,
                   logged>>
    /\ UNCHANGED extraVars

\* The call resumes with the response to the retry.
AfterRetry(t) ==
    /\ pc[t] = "got_retry"
    /\ HandleDirect(t, response[t], FALSE)
    /\ response' = [response EXCEPT ![t] = NoResponse]
    /\ UNCHANGED <<env_max_conc, now, runVars, max_conc, client, close_failed, fid>>
    /\ UNCHANGED extraVars

\* Lines 88-99: the call resumes with the response to the search.
AfterSearch(t) ==
    /\ pc[t] = "got_search"
    /\ LET r == response[t] IN
       IF r.kind = "http" /\ r.status = 200 /\ r.json_ok /\ Len(r.data) > 0
         THEN Succeed(t, ExtractStatus(r.data[1]))
         ELSE Fail(t)
    /\ response' = [response EXCEPT ![t] = NoResponse]
    /\ UNCHANGED <<env_max_conc, now, runVars, max_conc, client, close_failed, fid>>
    /\ UNCHANGED extraVars

Tick ==
    /\ now < MaxTime
    /\ now' = now + 1
    /\ UNCHANGED <<env_max_conc, runVars, apiVars, close_failed, callVars>>
    /\ UNCHANGED extraVars

---------------------------------------------------------------------------
(* Analyzer *)

TopRisksLimit == 5

\* _load_targets_map, lines 29-35: minimum versions, in tenths.
TargetNames ==
    {"baseline-2024", "baseline-2023", "baseline-2022", "widely", "conservative"}

TargetsMap ==
    [t \in TargetNames |-> [b \in Browsers |->
        CASE t = "baseline-2024" ->
               (CASE b = "chrome" -> 1210 [] b = "firefox" -> 1220
                  [] b = "safari" -> 170 [] b = "edge" -> 1210)
          [] t = "baseline-2023" ->
               (CASE b = "chrome" -> 1090 [] b = "firefox" -> 1090
                  [] b = "safari" -> 160 [] b = "edge" -> 1090)
          [] t = "baseline-2022" ->
               (CASE b = "chrome" -> 970 [] b = "firefox" -> 970
                  [] b = "safari" -> 154 [] b = "edge" -> 970)
          [] t = "widely" ->
               (CASE b = "chrome" -> 1000 [] b = "firefox" -> 1000
                  [] b = "safari" -> 150 [] b = "edge" -> 1000)
          [] t = "conservative" ->
               (CASE b = "chrome" -> 900 [] b = "firefox" -> 900
                  [] b = "safari" -> 140 [] b = "edge" -> 900)]]

\* Mutant: another entry of the table as the fallback.
TargetVersionsOtherDefault(tgt) ==
    IF tgt \notin DOMAIN TargetsMap THEN TargetsMap["baseline-2023"]
    ELSE TargetsMap[tgt]

\* _get_target_versions.
TargetVersions(tgt) ==
    IF tgt \notin DOMAIN TargetsMap THEN TargetsMap["baseline-2024"]
    ELSE TargetsMap[tgt]

\* Mutant: the whole string is parsed, not its part before the first dot.
WholeText(s) == s

\* version_str.split('.')[0]
RECURSIVE BeforeDot(_)
BeforeDot(s) ==
    IF Len(s) = 0 \/ s[1] = "." THEN <<>>
    ELSE <<s[1]>> \o BeforeDot(Tail(s))

\* analyze, line 109: float() of an integer beyond the largest float raises
\* OverflowError, which line 114 does not catch.  (No integer of exactly
\* FloatDigits digits occurs.)
FloatRaises(entry) == entry.present /\ entry.is_int /\ Len(entry.version) > FloatDigits

\* analyze, lines 102-117: the verdict (1 or 0) of one feature for a browser.
Verdict(status, b, tv) ==
    IF ~status.browsers[b].present THEN 0
    ELSE LET major == IF status.browsers[b].is_int THEN status.browsers[b].version
                      ELSE BeforeDot(status.browsers[b].version)
         IN  IF ~IsNumber(major) THEN 0
             ELSE IF NumberVal(major) * 10 >= tv[b] THEN 1 ELSE 0

\* Mutant: a newly feature is counted as widely.
BucketNewlyAsWidely(status) ==
    IF status.baseline_status \in {"widely", "newly"} THEN "widely" ELSE "limited"

\* analyze, lines 77-97: the bucket a status falls in.
Bucket(status) ==
    IF status.baseline_status = "widely" THEN "widely"
    ELSE IF status.baseline_status = "newly" THEN "newly"
    ELSE "limited"

\* round(x, 1) of x = p / q percent, as tenths; ties go to the even tenth.
RoundTenths(p, q) ==
    LET n == p * 10
        fl == n \div q
        rem == n % q
    IN  IF 2 * rem < q THEN fl
        ELSE IF 2 * rem > q THEN fl + 1
        ELSE IF fl % 2 = 0 THEN fl ELSE fl + 1

\* analyze, lines 122-123 and 143: (widely + 0.5 newly) / total * 100.
GlobalScore(widely, newly, total) == RoundTenths((2 * widely + newly) * 100, 2 * total)

\* analyze, lines 126-131 and 147.
Coverage(supported, observed) ==
    IF observed = 0 THEN 1000 ELSE RoundTenths(supported * 100, observed)

\* Mutant: the sort key without its third component.
RiskBeforeNoFiles(x, y) ==
    LET px == IF x.status = "limited" THEN 0 ELSE 1
        py == IF y.status = "limited" THEN 0 ELSE 1
    IN  \/ px < py
        \/ px = py /\ x.total_hits > y.total_hits

\* The sort key of lines 134-138; smaller sorts first.
RiskBefore(x, y) ==
    LET px == IF x.status = "limited" THEN 0 ELSE 1
        py == IF y.status = "limited" THEN 0 ELSE 1
    IN  \/ px < py
        \/ px = py /\ x.total_hits > y.total_hits
        \/ px = py /\ x.total_hits = y.total_hits /\ x.file_count > y.file_count

\* list.sort is stable: x goes after the entries that do not sort after it.
RECURSIVE InsertRisk(_, _)
InsertRisk(sorted, x) ==
    IF Len(sorted) = 0 THEN <<x>>
    ELSE IF RiskBefore(x, sorted[Len(sorted)])
      THEN Append(InsertRisk(SubSeq(sorted, 1, Len(sorted) - 1), x), sorted[Len(sorted)])
      ELSE Append(sorted, x)

RECURSIVE SortRisks(_)
SortRisks(risks) ==
    IF Len(risks) = 0 THEN <<>>
    ELSE InsertRisk(SortRisks(SubSeq(risks, 1, Len(risks) - 1)), risks[Len(risks)])

\* analyze, lines 75-97: the risks in iteration order.
RECURSIVE Risks(_)
Risks(features) ==
    IF Len(features) = 0 THEN <<>>
    ELSE LET a == features[Len(features)]
             rest == Risks(SubSeq(features, 1, Len(features) - 1))
         IN  IF Bucket(a.status) = "widely" THEN rest
             ELSE Append(rest, [feature_id |-> a.feature_id,
                                total_hits |-> a.total_hits,
                                file_count |-> Len(a.files),
                                status |-> Bucket(a.status)])

\* Mutant: no cut.
TakeAll(s, n) == s

\* risks[:5] and the projection of line 140.
Take(s, n) == SubSeq(s, 1, IF Len(s) < n THEN Len(s) ELSE n)

RECURSIVE RiskIds(_)
RiskIds(risks) ==
    IF Len(risks) = 0 THEN <<>>
    ELSE Append(RiskIds(SubSeq(risks, 1, Len(risks) - 1)), risks[Len(risks)].feature_id)

CountBucket(features, b) ==
    Cardinality({i \in 1..Len(features) : Bucket(features[i].status) = b})

\* Mutant: the score an empty set gets without the early return of line 64.
EmptyMetricsZero(tgt) ==
    [global_score |-> 0, widely_count |-> 0, newly_count |-> 0,
     limited_count |-> 0, browser_coverage |-> [b \in Browsers |-> 1000],
     top_risks |-> <<>>, total_features |-> 0, target |-> tgt]

\* _empty_metrics.
EmptyMetrics(tgt) ==
    [global_score |-> 1000, widely_count |-> 0, newly_count |-> 0,
     limited_count |-> 0, browser_coverage |-> [b \in Browsers |-> 1000],
     top_risks |-> <<>>, total_features |-> 0, target |-> tgt]

\* Analyzer.analyze raises instead of returning.
AnalyzeRaises(features) ==
    \E i \in 1..Len(features) : \E b \in Browsers : FloatRaises(features[i].status.browsers[b])

\* Analyzer.analyze, when it returns.
Analyze(features, tgt) ==
    IF Len(features) = 0 THEN EmptyMetrics(tgt)
    ELSE
      LET widely == CountBucket(features, "widely")
          newly == CountBucket(features, "newly")
          limited == CountBucket(features, "limited")
          total == widely + newly + limited
          tv == TargetVersions(tgt)
          sorted == SortRisks(Risks(features))
      IN  [global_score |-> IF total > 0 THEN GlobalScore(widely, newly, total) ELSE 0,
           widely_count |-> widely,
           newly_count |-> newly,
           limited_count |-> limited,
           browser_coverage |-> [b \in Browsers |->
              Coverage(Cardinality({i \in 1..Len(features) :
                                      Verdict(features[i].status, b, tv) = 1}),
                       Len(features))],
           top_risks |-> RiskIds(Take(sorted, TopRisksLimit)),
           total_features |-> total,
           target |-> tgt]

NoMetrics ==
    [global_score |-> -1, widely_count |-> 0, newly_count |-> 0,
     limited_count |-> 0, browser_coverage |-> [b \in Browsers |-> -1],
     top_risks |-> <<>>, total_features |-> 0, target |-> ""]

---------------------------------------------------------------------------
(* Formatter *)

\* The position of a feature id in the ordered aggregates, 0 when absent.
IndexOf(features, f) ==
    IF \E i \in 1..Len(features) : features[i].feature_id = f
      THEN CHOOSE i \in 1..Len(features) : features[i].feature_id = f
      ELSE 0

FilesLimit == 10
ActionRisksLimit == 3
ActionsLimit == 5

\* The key of line 31 with reverse=True: more hits sort first.
RECURSIVE InsertFile(_, _)
InsertFile(sorted, x) ==
    IF Len(sorted) = 0 THEN <<x>>
    ELSE IF x.hits > sorted[Len(sorted)].hits
      THEN Append(InsertFile(SubSeq(sorted, 1, Len(sorted) - 1), x), sorted[Len(sorted)])
      ELSE Append(sorted, x)

RECURSIVE SortFiles(_)
SortFiles(files) ==
    IF Len(files) = 0 THEN <<>>
    ELSE InsertFile(SortFiles(SubSeq(files, 1, Len(files) - 1)), files[Len(files)])

\* format_report, lines 23-36: the entry of one feature.
FeatureEntry(a) ==
    [id |-> a.feature_id,
     status |-> a.status.baseline_status,
     browsers |-> a.status.browsers,
     files |-> Take(SortFiles(a.files), FilesLimit),
     total_hits |-> a.total_hits,
     file_count |-> Len(a.files)]

\* Mutant: the sort key of the Analyzer, where every status that is not
\* limited ranks alike.
StatusRankOfAnalyzer(status) == IF status = "limited" THEN 0 ELSE 1

\* The first component of the sort key of lines 40-43.
StatusRank(status) ==
    IF status = "limited" THEN 0 ELSE IF status = "newly" THEN 1 ELSE 2

\* The sort key of lines 40-43; smaller sorts first.
EntryBefore(x, y) ==
    \/ StatusRank(x.status) < StatusRank(y.status)
    \/ StatusRank(x.status) = StatusRank(y.status) /\ x.total_hits > y.total_hits

RECURSIVE InsertEntry(_, _)
InsertEntry(sorted, x) ==
    IF Len(sorted) = 0 THEN <<x>>
    ELSE IF EntryBefore(x, sorted[Len(sorted)])
      THEN Append(InsertEntry(SubSeq(sorted, 1, Len(sorted) - 1), x), sorted[Len(sorted)])
      ELSE Append(sorted, x)

RECURSIVE SortEntries(_)
SortEntries(entries) ==
    IF Len(entries) = 0 THEN <<>>
    ELSE InsertEntry(SortEntries(SubSeq(entries, 1, Len(entries) - 1)),
                     entries[Len(entries)])

\* Whether the feature id contains the word ("container" in risk).
Mentions(id, word) ==
    CASE word = "container" -> id = "css-container-queries"
      [] word = "subgrid" -> id = "css-subgrid"
      [] word = "has" -> id = "css-has-selector"
      [] word = "dialog" -> id = "html-dialog"
      [] OTHER -> FALSE

NoAction == [kind |-> "", feature |-> "", file |-> ""]
Action(kind, feature, file) == [kind |-> kind, feature |-> feature, file |-> file]

\* _generate_actions, lines 189-208: what one risk adds to the actions.
ActionsOf(features, risk) ==
    LET i == IndexOf(features, risk) IN
    IF i = 0 THEN <<>>
    ELSE LET status == features[i].status.baseline_status
             files == features[i].files
             top_file == IF Len(files) > 0 THEN files[1].path ELSE "unknown"
         IN  IF status = "limited"
               THEN IF Mentions(risk, "container") THEN <<Action("container", "", top_file)>>
                    ELSE IF Mentions(risk, "subgrid") THEN <<Action("subgrid", "", top_file)>>
                    ELSE IF Mentions(risk, "has") THEN <<Action("has", "", top_file)>>
                    ELSE IF Mentions(risk, "dialog") THEN <<Action("dialog", "", "")>>
                    ELSE <<Action("polyfill", risk, "")>>
             ELSE IF status = "newly" THEN <<Action("test", risk, "")>>
             ELSE <<>>

RECURSIVE ActionsOfAll(_, _)
ActionsOfAll(features, risks) ==
    IF Len(risks) = 0 THEN <<>>
    ELSE ActionsOfAll(features, SubSeq(risks, 1, Len(risks) - 1))
           \o ActionsOf(features, risks[Len(risks)])

\* Mutant: every top risk is given an action.
GenerateActionsForAll(features, top_risks) ==
    LET actions == ActionsOfAll(features, top_risks)
    IN  IF Len(actions) = 0
          THEN IF Len(features) > 0 THEN <<Action("good", "", "")>>
               ELSE <<Action("none", "", "")>>
          ELSE Take(actions, ActionsLimit)

\* _generate_actions.
GenerateActions(features, top_risks) ==
    LET actions == ActionsOfAll(features, Take(top_risks, ActionRisksLimit))
    IN  IF Len(actions) = 0
          THEN IF Len(features) > 0 THEN <<Action("good", "", "")>>
               ELSE <<Action("none", "", "")>>
          ELSE Take(actions, ActionsLimit)

\* format_report; generated_at is left out.
FormatReport(features, m, n_files) ==
    [summary |-> [files_scanned |-> n_files,
                  features_total |-> m.total_features,
                  score_global |-> m.global_score,
                  coverage_by_browser |-> m.browser_coverage,
                  target |-> m.target],
     features |-> SortEntries([i \in 1..Len(features) |-> FeatureEntry(features[i])]),
     next_actions |-> GenerateActions(features, m.top_risks)]

\* Formatter.format_charts.
FormatCharts(m, features) ==
    [compatibility_overview |->
        [widely |-> m.widely_count, newly |-> m.newly_count, limited |-> m.limited_count],
     browser_bars |-> m.browser_coverage,
     top_risks |-> [i \in 1..Len(m.top_risks) |->
        LET k == IndexOf(features, m.top_risks[i]) IN
        [feature |-> m.top_risks[i],
         status |-> IF k = 0 THEN "limited" ELSE features[k].status.baseline_status,
         files |-> IF k = 0 THEN 0 ELSE Len(features[k].files),
         hits |-> IF k = 0 THEN 0 ELSE features[k].total_hits]],
     trend |-> [value |-> m.global_score, target |-> m.target]]

NoReport ==
    [summary |-> [files_scanned |-> -1, features_total |-> 0, score_global |-> -1,
                  coverage_by_browser |-> [b \in Browsers |-> -1], target |-> ""],
     features |-> <<>>,
     next_actions |-> <<>>]

---------------------------------------------------------------------------
(* Detector *)

\* A text is a sequence of characters.  at(s, i, w): w stands in s at i.
StartsWith(s, i, w) ==
    /\ i + Len(w) - 1 <= Len(s)
    /\ \A k \in 1..Len(w) : s[i + k - 1] = w[k]

\* re.sub(r'//.*$', '', content, flags=re.MULTILINE), line 129: on every
\* line the text from the first // to the end of the line goes.
RECURSIVE StripLineComments(_, _, _)
StripLineComments(s, i, in_comment) ==
    IF i > Len(s) THEN <<>>
    ELSE IF s[i] = "\n" THEN <<"\n">> \o StripLineComments(s, i + 1, FALSE)
    ELSE IF in_comment THEN StripLineComments(s, i + 1, TRUE)
    ELSE IF StartsWith(s, i, <<"/", "/">>) THEN StripLineComments(s, i + 2, TRUE)
    ELSE <<s[i]>> \o StripLineComments(s, i + 1, FALSE)

\* Where the first */ at or after i stands, 0 when there is none.
FirstClose(s, i) ==
    LET closes == {j \in i..Len(s) : StartsWith(s, j, <<"*", "/">>)}
    IN  IF closes = {} THEN 0 ELSE CHOOSE j \in closes : \A k \in closes : j <= k

\* re.sub(r'/\*.*?\*/', '', content, flags=re.DOTALL), line 130: leftmost
\* match first, each from a /* to the nearest */ after it.
RECURSIVE StripBlockComments(_, _)
StripBlockComments(s, i) ==
    IF i > Len(s) THEN <<>>
    ELSE IF StartsWith(s, i, <<"/", "*">>) /\ FirstClose(s, i + 2) # 0
      THEN StripBlockComments(s, FirstClose(s, i + 2) + 2)
    ELSE <<s[i]>> \o StripBlockComments(s, i + 1)

\* A rule of the js group: the literal its pattern matches and the
\* characters its negative lookahead rejects after it.
JsRule(id, word, not_before) == [id |-> id, word |-> word, not_before |-> not_before]

\* _get_default_patterns, the js group, in the order of the mapping.
JsRules ==
    <<JsRule("js-optional-chaining", <<"?", ".">>,
             {"0", "1", "2", "3", "4", "5", "6", "7", "8", "9"}),
      JsRule("js-nullish-coalescing", <<"?", "?">>, {"="})>>

\* len(pattern.findall(content)): the matches from i on, none overlapping.
RECURSIVE CountMatches(_, _, _)
CountMatches(s, i, rule) ==
    IF i > Len(s) THEN 0
    ELSE LET after == i + Len(rule.word) IN
         IF /\ StartsWith(s, i, rule.word)
            /\ ~(after <= Len(s) /\ s[after] \in rule.not_before)
           THEN 1 + CountMatches(s, after, rule)
           ELSE CountMatches(s, i + 1, rule)

\* The loop of lines 134-146 on a text: an entry per rule with a match.
RECURSIVE HitsOfRules(_, _)
HitsOfRules(s, n) ==
    IF n = 0 THEN <<>>
    ELSE LET count == CountMatches(s, 1, JsRules[n])
             before == HitsOfRules(s, n - 1)
         IN  IF count > 0
               THEN Append(before, [feature_id |-> JsRules[n].id, hits |-> count])
               ELSE before

\* Mutant: only the block comments are removed.
DetectJsBlocksOnly(text) == HitsOfRules(StripBlockComments(text, 1), Len(JsRules))

\* Detector._detect_js.
DetectJs(text) ==
    HitsOfRules(StripBlockComments(StripLineComments(text, 1, FALSE), 1), Len(JsRules))

DetectorUnused ==
    /\ content = <<>>
    /\ detected = <<>>

---------------------------------------------------------------------------
(* Walker *)

\* Walker.__init__, line 16.
Extensions == {".css", ".scss", ".js", ".ts", ".jsx", ".tsx", ".html"}

\* Walker.__init__, lines 17-21.
ExcludedDirs ==
    {"node_modules", ".git", "dist", "build", ".next", "vendor", "coverage",
     ".cache", "tmp", "__pycache__", ".venv", "env", "venv", ".tox",
     ".pytest_cache"}

\* The size limit of line 90, in bytes.
MaxFileSize == 2 * 1024 * 1024

\* What path.stat() gives when it raises OSError.
NoStat == -1

\* str.lower() on the suffixes that occur.
Lower(suffix) ==
    CASE suffix = ".CSS" -> ".css"
      [] suffix = ".Js" -> ".js"
      [] suffix = ".HTML" -> ".html"
      [] OTHER -> suffix

\* An entry of a directory: kind "dir", "file" (is_file() is true) or
\* "other" (neither: a socket, a dangling link).  name is the entry's name,
\* suffix its path.suffix, size its st_size; readable tells whether
\* iterdir() on a directory succeeds; found is what Detector.detect
\* returns for a file, as (feature id, hits) pairs.
FileEntry(name, suffix, size, found) ==
    [kind |-> "file", name |-> name, suffix |-> suffix, size |-> size,
     readable |-> TRUE, children |-> <<>>, found |-> found]
OtherEntry(name, suffix) ==
    [kind |-> "other", name |-> name, suffix |-> suffix, size |-> 1,
     readable |-> TRUE, children |-> <<>>, found |-> <<>>]
DirEntry(name, readable, children) ==
    [kind |-> "dir", name |-> name, suffix |-> "", size |-> 0,
     readable |-> readable, children |-> children, found |-> <<>>]

\* A directory given to scan: the parts of its resolved path and itself.
Directory(parts, readable, children) ==
    [parts |-> parts, readable |-> readable, children |-> children]

NoDirectory == Directory(<<>>, FALSE, <<>>)

\* A path the walker yields, with what is on disk there.
Located(item, parts) ==
    [parts |-> parts, kind |-> item.kind, suffix |-> item.suffix,
     size |-> item.size, found |-> item.found]

\* Mutant: empty files are let through.
ShouldIncludeEmpty(item, parts) ==
    /\ Lower(item.suffix) \in Extensions
    /\ \A i \in 1..Len(parts) : parts[i] \notin ExcludedDirs
    /\ item.size # NoStat
    /\ item.size <= MaxFileSize

\* _should_include; parts are the parts of the item's path.
ShouldInclude(item, parts) ==
    /\ Lower(item.suffix) \in Extensions
    /\ \A i \in 1..Len(parts) : parts[i] \notin ExcludedDirs
    /\ item.size # NoStat
    /\ ~(item.size > MaxFileSize)
    /\ item.size # 0

\* _walk_directory on the entries of a directory whose path has the given
\* parts: the paths it yields, in order.  iterdir() on an unreadable
\* directory raises PermissionError, which ends that directory's walk only.
RECURSIVE WalkDirectory(_, _)
WalkDirectory(children, parts) ==
    IF Len(children) = 0 THEN <<>>
    ELSE LET item == Head(children)
             path == Append(parts, item.name)
             here ==
               IF item.kind = "dir"
                 THEN IF item.name \notin ExcludedDirs /\ item.readable
                        THEN WalkDirectory(item.children, path)
                        ELSE <<>>
               ELSE IF item.kind = "file" /\ ShouldInclude(item, path)
                 THEN <<Located(item, path)>>
               ELSE <<>>
         IN  here \o WalkDirectory(Tail(children), parts)

\* The directories below the given one that a complete walk calls
\* _walk_directory on; a scan cut by max_files calls it on some of them.
RECURSIVE WalkedInto(_, _)
WalkedInto(children, parts) ==
    IF Len(children) = 0 THEN {}
    ELSE LET item == Head(children)
             path == Append(parts, item.name)
             here ==
               IF item.kind = "dir" /\ item.name \notin ExcludedDirs
                 THEN {path} \cup (IF item.readable THEN WalkedInto(item.children, path)
                                   ELSE {})
               ELSE {}
         IN  here \cup WalkedInto(Tail(children), parts)

\* Mutant: the limit is tested after the path is appended.
ScanOneMore(dir, limit) ==
    LET walked == IF dir.readable THEN WalkDirectory(dir.children, dir.parts) ELSE <<>>
    IN  SubSeq(walked, 1, IF Len(walked) < limit + 1 THEN Len(walked) ELSE limit + 1)

\* Walker.scan: the first max_files paths of the walk.
Scan(dir, limit) ==
    LET walked == IF dir.readable THEN WalkDirectory(dir.children, dir.parts) ELSE <<>>
    IN  SubSeq(walked, 1, IF limit < 0 THEN 0
                          ELSE IF Len(walked) < limit THEN Len(walked) ELSE limit)

WalkerUnused ==
    /\ directory = NoDirectory
    /\ max_files = 0
    /\ scanned = <<>>
    /\ visited = {}

---------------------------------------------------------------------------
(* Validation and the retained results *)

\* A project_path as it resolves on disk.
Project(exists, is_dir, dir) == [exists |-> exists, is_dir |-> is_dir, dir |-> dir]

\* path.rglob("*") of validate_project_path, lines 34-40: some entry below
\* is a file with a supported suffix; unreadable directories are skipped,
\* excluded names and sizes are not looked at.
RECURSIVE HasSupportedFile(_)
HasSupportedFile(children) ==
    \E i \in 1..Len(children) :
        \/ children[i].kind = "file" /\ Lower(children[i].suffix) \in Extensions
        \/ /\ children[i].kind = "dir"
           /\ children[i].readable
           /\ HasSupportedFile(children[i].children)

\* validate_project_path returns (TRUE) or raises ValueError (FALSE).
ValidProjectPath(project) ==
    /\ project.exists
    /\ project.is_dir
    /\ project.dir.readable
    /\ HasSupportedFile(project.dir.children)

\* validate_target on the names that are passed: the normalised name, ""
\* when it raises ValueError.
ValidateTarget(tgt) ==
    CASE tgt = "widely" -> "widely"
      [] tgt = "Widely-Available" -> "widely"
      [] tgt = "baseline-2024" -> "baseline-2024"
      [] tgt = "Baseline-2021" -> "baseline-2021"
      [] tgt = "es2023" -> "baseline-2023"
      [] OTHER -> ""

\* audit_project, lines 49-50; the environment does not set
\* AMICOMPAT_DEFAULT_TARGET.
TargetOrDefault(tgt) == IF tgt = "None" THEN "baseline-2024" ELSE tgt

\* The arguments of one audit_project invocation; export stands for
\* export_path: "none", or how writing to it ends ("ok", "fails").
Request(project, tgt, export) == [project |-> project, target |-> tgt, export |-> export]

NoRequest == Request(Project(FALSE, FALSE, NoDirectory), "None", "none")

\* Python's None in _last_report and _last_charts.
NoneValue == [none |-> TRUE]

\* What an invocation ends with: kind "report" (lines 113-131),
\* "no_files" (lines 68-74), or the exception it raises; exported is
\* "exported_to", "export_error" or "".
Result(kind, rep, charts, exported) ==
    [kind |-> kind, report |-> rep, charts |-> charts, exported |-> exported]

NoResult == Result("none", NoneValue, NoneValue, "")

\* An invocation: pc is "idle" (not made), "resolving" (at the await of
\* lines 95-97), "returned" or "raised".
NoRun ==
    [pc |-> "idle", request |-> NoRequest, target |-> "", files_count |-> 0,
     all_features |-> <<>>, result |-> NoResult]

ServerUnused ==
    /\ audits = [k \in Runs |-> NoRun]
    /\ last_report = NoneValue
    /\ last_charts = NoneValue
    /\ retained_from = [report |-> 0, charts |-> 0]
    /\ finished = <<>>
    /\ served = [request |-> "none", answer |-> NoneValue]

---------------------------------------------------------------------------
(* Handlers *)

\* What Walker.scan and Detector.detect give for a project: per file, in
\* scan order, the detected features with their hit counts.
Hit(f, n) == [feature_id |-> f, hits |-> n]
File(path, features) == [path |-> path, features |-> features]

Projects ==
    {<<>>,
     <<File("a.css", <<>>)>>,
     <<File("a.css", <<Hit("css-has-selector", 2)>>),
       File("b.js", <<Hit("js-optional-chaining", 1)>>)>>,
     <<File("a.css", <<Hit("css-has-selector", 1)>>),
       File("c.html", <<Hit("css-has-selector", 2)>>)>>}

AuditTargets == {"baseline-2023", "baseline-2021"}

\* Mutant: the total of a feature seen before is not added to.
AddHitKeepTotal(features, path, h) ==
    LET i == IndexOf(features, h.feature_id)
        e == [path |-> path, hits |-> h.hits]
    IN  IF i = 0
          THEN Append(features, [feature_id |-> h.feature_id, files |-> <<e>>,
                                 status |-> NoRecord, total_hits |-> h.hits])
          ELSE [features EXCEPT ![i] = [@ EXCEPT !.files = Append(@, e)]]

\* audit_project, lines 81-91.
AddHit(features, path, h) ==
    LET i == IndexOf(features, h.feature_id)
        e == [path |-> path, hits |-> h.hits]
    IN  IF i = 0
          THEN Append(features, [feature_id |-> h.feature_id, files |-> <<e>>,
                                 status |-> NoRecord, total_hits |-> h.hits])
          ELSE [features EXCEPT ![i] = [@ EXCEPT !.files = Append(@, e),
                                                   !.total_hits = @ + h.hits]]

RECURSIVE AddFile(_, _, _)
AddFile(features, path, hits) ==
    IF Len(hits) = 0 THEN features
    ELSE AddHit(AddFile(features, path, SubSeq(hits, 1, Len(hits) - 1)),
                path, hits[Len(hits)])

\* audit_project, lines 77-91.
RECURSIVE MergeDetections(_)
MergeDetections(files) ==
    IF Len(files) = 0 THEN <<>>
    ELSE AddFile(MergeDetections(SubSeq(files, 1, Len(files) - 1)),
                 files[Len(files)].path, files[Len(files)].features)

\* A gather result that is an exception object.
IsException(res) == res.baseline_status = "exception"

\* audit_project, lines 98-101: results go back to the ids by position.
Attach(features, res) ==
    [i \in 1..Len(features) |->
        [features[i] EXCEPT !.status =
            IF IsException(res[i])
              THEN [id |-> features[i].feature_id, baseline_status |-> "limited",
                    browsers |-> NoBrowsers, error |-> FALSE]
              ELSE res[i]]]

\* Mutant: the results in another order than the awaitables.
GatherReversed(n) == [i \in 1..n |-> ret[n + 1 - i]]

\* asyncio.gather: the results in the order of the awaitables.
Gather(n) == [i \in 1..n |-> ret[i]]

\* audit_file, lines 166-183, in tenths.
FileScore(features) ==
    RoundTenths((2 * CountBucket(features, "widely") + CountBucket(features, "newly")) * 100,
                2 * Len(features))

\* BaselineAPI() followed by __aenter__ (entered) and the creation of one
\* call per id, none of which has run yet.
NewApi(ids, entered) ==
    /\ max_conc' = MaxConcOf(env_max_conc)
    /\ semaphore' = MaxConcOf(env_max_conc)
    /\ cache' = NewCache
    /\ client' = IF entered THEN "open" ELSE "None"
    /\ close_failed' = FALSE
    /\ fid' = [t \in Calls |-> IF t <= Len(ids) THEN ids[t] ELSE ""]
    /\ pc' = [t \in Calls |-> IF t <= Len(ids) THEN "pending" ELSE "idle"]
    /\ response' = [t \in Calls |-> NoResponse]
    /\ wait_time' = [t \in Calls |-> 0]
    /\ ret' = [t \in Calls |-> NoRecord]
    /\ logged' = [t \in Calls |-> ""]

FeatureIds(features) == [i \in 1..Len(features) |-> features[i].feature_id]

Idle == phase \in {"none", "ended", "raised"}
AllReturned == \A t \in Calls : pc[t] \in {"idle", "done"}

\* audit_project up to the await of line 97.
StartAuditProject(files, tgt) ==
    /\ Idle
    /\ handler' = "audit_project"
    /\ target' = tgt
    /\ files_count' = Len(files)
    /\ results' = <<>>
    /\ metrics' = NoMetrics
    /\ file_score' = -1
    /\ IF Len(files) = 0
         THEN /\ phase' = "ended"
              /\ all_features' = <<>>
              /\ UNCHANGED <<apiVars, close_failed, callVars>>
         ELSE /\ phase' = "resolving"
              /\ all_features' = MergeDetections(files)
              /\ Len(all_features') <= MaxCalls
              /\ NewApi(FeatureIds(all_features'), TRUE)
    /\ UNCHANGED <<env_max_conc, now>>
    /\ UNCHANGED extraVars

\* audit_project from the return of gather to its end.
EndAuditProject(close_raises) ==
    /\ handler = "audit_project"
    /\ phase = "resolving"
    /\ AllReturned
    /\ client' = Aexit(client, close_raises)
    /\ close_failed' = close_raises
    /\ results' = Gather(Len(all_features))
    /\ all_features' = Attach(all_features, results')
    /\ IF AnalyzeRaises(all_features')
         THEN metrics' = NoMetrics /\ phase' = "raised"
         ELSE metrics' = Analyze(all_features', target) /\ phase' = "ended"
    /\ UNCHANGED <<env_max_conc, now, handler, target, files_count, file_score,
                   max_conc, semaphore, cache, callVars>>
    /\ UNCHANGED extraVars

\* audit_file up to the await of line 164.
StartAuditFile(file) ==
    /\ Idle
    /\ handler' = "audit_file"
    /\ target' = ""
    /\ files_count' = 1
    /\ results' = <<>>
    /\ metrics' = NoMetrics
    /\ all_features' = AddFile(<<>>, file.path, file.features)
    /\ IF Len(file.features) = 0
         THEN /\ phase' = "ended"
              /\ file_score' = 1000
              /\ UNCHANGED <<apiVars, close_failed, callVars>>
         ELSE /\ phase' = "resolving"
              /\ file_score' = -1
              /\ Len(all_features') <= MaxCalls
              /\ NewApi(FeatureIds(all_features'), TRUE)
    /\ UNCHANGED <<env_max_conc, now>>
    /\ UNCHANGED extraVars

\* audit_file from the return of gather to its end.
EndAuditFile(close_raises) ==
    /\ handler = "audit_file"
    /\ phase = "resolving"
    /\ AllReturned
    /\ client' = Aexit(client, close_raises)
    /\ close_failed' = close_raises
    /\ results' = Gather(Len(all_features))
    /\ all_features' = Attach(all_features, results')
    /\ file_score' = FileScore(all_features')
    /\ phase' = "ended"
    /\ UNCHANGED <<env_max_conc, now, handler, target, files_count, metrics,
                   max_conc, semaphore, cache, callVars>>
    /\ UNCHANGED extraVars

\* The get_feature_status tool up to the await of line 205.
StartGetFeatureStatus(f) ==
    /\ Idle
    /\ handler' = "get_feature_status"
    /\ phase' = "resolving"
    /\ target' = ""
    /\ files_count' = 0
    /\ all_features' = <<>>
    /\ results' = <<>>
    /\ metrics' = NoMetrics
    /\ file_score' = -1
    /\ NewApi(<<f>>, TRUE)
    /\ UNCHANGED <<env_max_conc, now>>
    /\ UNCHANGED extraVars

\* The get_feature_status tool from the return of the lookup to its end.
EndGetFeatureStatus(close_raises) ==
    /\ handler = "get_feature_status"
    /\ phase = "resolving"
    /\ AllReturned
    /\ client' = Aexit(client, close_raises)
    /\ close_failed' = close_raises
    /\ results' = Gather(1)
    /\ phase' = "ended"
    /\ UNCHANGED <<env_max_conc, now, handler, target, files_count, all_features,
                   metrics, file_score, max_conc, semaphore, cache, callVars>>
    /\ UNCHANGED extraVars

\* A caller of the class itself (test_server.py): BaselineAPI(), entered
\* with "async with" or not.
NewClient(entered) ==
    /\ Idle
    /\ handler' = "client"
    /\ phase' = "resolving"
    /\ target' = ""
    /\ files_count' = 0
    /\ all_features' = <<>>
    /\ results' = <<>>
    /\ metrics' = NoMetrics
    /\ file_score' = -1
    /\ NewApi(<<>>, entered)
    /\ UNCHANGED <<env_max_conc, now>>
    /\ UNCHANGED extraVars

\* The feature the caller looks up (test_server.py looks up one id).
ClientFeature == "css-has-selector"

\* The caller creates one more lookup on its client.
ClientCall(f) ==
    /\ handler = "client"
    /\ phase = "resolving"
    /\ \E t \in Calls :
         /\ pc[t] = "idle"
         /\ \A u \in Calls : u < t => pc[u] # "idle"
         /\ pc' = [pc EXCEPT ![t] = "pending"]
         /\ fid' = [fid EXCEPT ![t] = f]
    /\ UNCHANGED <<env_max_conc, now, runVars, apiVars, close_failed,
                   response, wait_time, ret, logged>>
    /\ UNCHANGED extraVars

\* The caller leaves the "async with" block (or drops a client it never
\* entered) once its lookups have returned.
ClientExit(close_raises) ==
    /\ handler = "client"
    /\ phase = "resolving"
    /\ AllReturned
    /\ client' = Aexit(client, close_raises)
    /\ close_failed' = (close_raises /\ client # "None")
    /\ phase' = "ended"
    /\ UNCHANGED <<env_max_conc, now, handler, target, files_count, all_features,
                   results, metrics, file_score, max_conc, semaphore, cache, callVars>>
    /\ UNCHANGED extraVars

---------------------------------------------------------------------------
(* Specification *)

Init ==
    /\ env_max_conc \in EnvValues
    /\ now = 0
    /\ handler = "none"
    /\ phase = "none"
    /\ target = ""
    /\ files_count = 0
    /\ all_features = <<>>
    /\ results = <<>>
    /\ metrics = NoMetrics
    /\ file_score = -1
    /\ max_conc = MaxConcOf(env_max_conc)
    /\ semaphore = MaxConcOf(env_max_conc)
    /\ client = "None"
    /\ close_failed = FALSE
    /\ cache = NewCache
    /\ fid = [t \in Calls |-> ""]
    /\ pc = [t \in Calls |-> "idle"]
    /\ response = [t \in Calls |-> NoResponse]
    /\ wait_time = [t \in Calls |-> 0]
    /\ ret = [t \in Calls |-> NoRecord]
    /\ logged = [t \in Calls |-> ""]
    /\ report = NoReport
    /\ WalkerUnused
    /\ ServerUnused
    /\ DetectorUnused

Next ==
    \/ \E files \in Projects, tgt \in AuditTargets : StartAuditProject(files, tgt)
    \/ \E b \in BOOLEAN : EndAuditProject(b)
    \/ \E files \in Projects : \E i \in 1..Len(files) : StartAuditFile(files[i])
    \/ \E b \in BOOLEAN : EndAuditFile(b)
    \/ \E f \in Features : StartGetFeatureStatus(f)
    \/ \E b \in BOOLEAN : EndGetFeatureStatus(b)
    \/ \E b \in BOOLEAN : NewClient(b)
    \/ ClientCall(ClientFeature)
    \/ \E b \in BOOLEAN : ClientExit(b)
    \/ \E t \in Calls : Begin(t)
    \/ \E t \in Calls : Admit(t)
    \/ \E t \in Calls : \E r \in DirectResponses(fid[t]) : Arrive(t, "direct", r)
    \/ \E t \in Calls : AfterDirect(t)
    \/ \E t \in Calls : Wake(t)
    \/ \E t \in Calls : \E r \in RetryResponses(fid[t]) : Arrive(t, "retry", r)
    \/ \E t \in Calls : AfterRetry(t)
    \/ \E t \in Calls : \E r \in SearchResponses(fid[t]) : Arrive(t, "search", r)
    \/ \E t \in Calls : AfterSearch(t)
    \/ Tick

Spec == Init /\ [][Next]_vars

---------------------------------------------------------------------------
(* Analyzer.analyze on its own: the feature set and the target are drawn     *)
(* from bounded sets and analyze is applied to them.                         *)

MaxFeatures == 3

AnalyzerIds ==
    <<"css-has-selector", "js-optional-chaining", "css-subgrid",
      "css-container-queries", "js-nullish-coalescing", "css-nesting">>

\* The statuses a feature can carry after the resolution phase.
AnalyzerStatuses(f) ==
    {ExtractStatus(WidelyBody(f)), ExtractStatus(NewlyBody(f)),
     ExtractStatus(LimitedBody(f)), Synthetic(f)}
    \cup (IF f = AnalyzerIds[1] THEN {ExtractStatus(HugeBody(f))} ELSE {})

AnalyzerFiles ==
    {<<[path |-> "a.css", hits |-> 1]>>,
     <<[path |-> "a.css", hits |-> 1], [path |-> "b.css", hits |-> 1]>>}

RECURSIVE SumHits(_)
SumHits(files) ==
    IF Len(files) = 0 THEN 0
    ELSE SumHits(SubSeq(files, 1, Len(files) - 1)) + files[Len(files)].hits

RECURSIVE AnalyzerInputsOfLen(_)
AnalyzerInputsOfLen(n) ==
    IF n = 0 THEN {<<>>}
    ELSE {Append(features, [feature_id |-> AnalyzerIds[n], files |-> fs,
                            status |-> st, total_hits |-> SumHits(fs)]) :
            features \in AnalyzerInputsOfLen(n - 1),
            fs \in AnalyzerFiles,
            st \in AnalyzerStatuses(AnalyzerIds[n])}

AnalyzerInputs == UNION {AnalyzerInputsOfLen(n) : n \in 0..MaxFeatures}

InitAnalyze ==
    /\ env_max_conc = EnvUnset
    /\ now = 0
    /\ handler = "analyze"
    /\ phase = "none"
    /\ target \in AuditTargets \cup {"baseline-2024"}
    /\ files_count = 0
    /\ all_features \in AnalyzerInputs
    /\ results = <<>>
    /\ metrics = NoMetrics
    /\ file_score = -1
    /\ max_conc = MaxConcOf(env_max_conc)
    /\ semaphore = MaxConcOf(env_max_conc)
    /\ client = "None"
    /\ close_failed = FALSE
    /\ cache = NewCache
    /\ fid = [t \in Calls |-> ""]
    /\ pc = [t \in Calls |-> "idle"]
    /\ response = [t \in Calls |-> NoResponse]
    /\ wait_time = [t \in Calls |-> 0]
    /\ ret = [t \in Calls |-> NoRecord]
    /\ logged = [t \in Calls |-> ""]
    /\ report = NoReport
    /\ WalkerUnused
    /\ ServerUnused
    /\ DetectorUnused

\* Analyzer(target).analyze(all_features)
AnalyzeStep ==
    /\ handler = "analyze"
    /\ phase = "none"
    /\ IF AnalyzeRaises(all_features)
         THEN metrics' = NoMetrics /\ phase' = "raised"
         ELSE metrics' = Analyze(all_features, target) /\ phase' = "ended"
    /\ UNCHANGED <<env_max_conc, now, handler, target, files_count, all_features,
                   results, file_score, apiVars, close_failed, callVars>>
    /\ UNCHANGED extraVars

NextAnalyze == AnalyzeStep

SpecAnalyze == InitAnalyze /\ [][NextAnalyze]_vars

---------------------------------------------------------------------------
(* Analyzer.analyze followed by Formatter.format_report, as lines 104-105   *)
(* of audit_project call them, on feature sets large enough for risks[:5]  *)
(* to cut.                                                                  *)

MaxRisks == TopRisksLimit + 1

RiskFeatureIds ==
    <<"css-container-queries", "css-subgrid", "css-has-selector", "html-dialog",
      "js-optional-chaining", "js-nullish-coalescing">>

\* What a feature of the set looks like: its baseline_status ("high" is a
\* value outside widely / newly / limited) and its files.
RiskShape(status, files) == [baseline_status |-> status, files |-> files]

RiskShapes ==
    {RiskShape("widely", <<[path |-> "a.css", hits |-> 2]>>),
     RiskShape("newly", <<[path |-> "a.css", hits |-> 2]>>),
     RiskShape("limited", <<[path |-> "a.css", hits |-> 1]>>),
     RiskShape("limited", <<[path |-> "a.css", hits |-> 2]>>),
     RiskShape("limited", <<[path |-> "a.css", hits |-> 1], [path |-> "b.css", hits |-> 1]>>),
     RiskShape("high", <<[path |-> "b.css", hits |-> 1]>>)}

RiskAggregate(f, shape) ==
    [feature_id |-> f, files |-> shape.files,
     status |-> [id |-> f, baseline_status |-> shape.baseline_status,
                 browsers |-> NoBrowsers, error |-> FALSE],
     total_hits |-> SumHits(shape.files)]

InitRisks ==
    /\ env_max_conc = EnvUnset
    /\ now = 0
    /\ handler = "analyze"
    /\ phase = "none"
    /\ target = "baseline-2024"
    /\ files_count = 2
    /\ \E n \in 0..MaxRisks : \E shapes \in [1..n -> RiskShapes] :
         all_features = [i \in 1..n |-> RiskAggregate(RiskFeatureIds[i], shapes[i])]
    /\ results = <<>>
    /\ metrics = NoMetrics
    /\ file_score = -1
    /\ max_conc = MaxConcOf(env_max_conc)
    /\ semaphore = MaxConcOf(env_max_conc)
    /\ client = "None"
    /\ close_failed = FALSE
    /\ cache = NewCache
    /\ fid = [t \in Calls |-> ""]
    /\ pc = [t \in Calls |-> "idle"]
    /\ response = [t \in Calls |-> NoResponse]
    /\ wait_time = [t \in Calls |-> 0]
    /\ ret = [t \in Calls |-> NoRecord]
    /\ logged = [t \in Calls |-> ""]
    /\ report = NoReport
    /\ WalkerUnused
    /\ ServerUnused
    /\ DetectorUnused

\* formatter.format_report(all_features, metrics, len(files))
FormatStep ==
    /\ handler = "analyze"
    /\ phase = "ended"
    /\ report' = FormatReport(all_features, metrics, files_count)
    /\ phase' = "formatted"
    /\ UNCHANGED <<env_max_conc, now, handler, target, files_count, all_features,
                   results, metrics, file_score, apiVars, close_failed, callVars>>
    /\ UNCHANGED <<walkVars, auditVars, detectVars>>

NextRisks == AnalyzeStep \/ FormatStep

SpecRisks == InitRisks /\ [][NextRisks]_vars

---------------------------------------------------------------------------
(* Walker.scan on its own, on directories with entries of every kind       *)

\* The status client of a process that makes no call.
ClientUnused ==
    /\ env_max_conc = EnvUnset
    /\ now = 0
    /\ results = <<>>
    /\ file_score = -1
    /\ max_conc = MaxConcOf(env_max_conc)
    /\ semaphore = MaxConcOf(env_max_conc)
    /\ client = "None"
    /\ close_failed = FALSE
    /\ cache = NewCache
    /\ fid = [t \in Calls |-> ""]
    /\ pc = [t \in Calls |-> "idle"]
    /\ response = [t \in Calls |-> NoResponse]
    /\ wait_time = [t \in Calls |-> 0]
    /\ ret = [t \in Calls |-> NoRecord]
    /\ logged = [t \in Calls |-> ""]

\* What a file of the walked directories may be.
WalkFiles(stem) ==
    {FileEntry(stem \o ".css", ".css", size, <<>>) :
        size \in {0, 1, MaxFileSize, MaxFileSize + 1, NoStat}}
    \cup {FileEntry(stem \o ".Js", ".Js", 1, <<>>),
          FileEntry(stem \o ".txt", ".txt", 1, <<>>),
          OtherEntry(stem \o ".css", ".css")}

\* Where the walked directory lies, and how its subdirectories are named.
WalkRoots == {<<"/", "home", "app">>, <<"/", "tmp", "app">>}
WalkOuterNames == {"src", "node_modules", "Build"}
WalkInnerNames == {"lib", "dist"}

WalkLimits == {0, 2, 10000}

InitWalk ==
    /\ ClientUnused
    /\ handler = "scan"
    /\ phase = "none"
    /\ target = "baseline-2024"
    /\ files_count = 0
    /\ all_features = <<>>
    /\ metrics = NoMetrics
    /\ report = NoReport
    /\ \E parts \in WalkRoots, outer \in WalkOuterNames, inner \in WalkInnerNames,
          readable \in BOOLEAN,
          f1 \in WalkFiles("a"), f2 \in WalkFiles("b"), f3 \in WalkFiles("c") :
         directory = Directory(parts, TRUE,
            <<f1, DirEntry(outer, readable, <<DirEntry(inner, TRUE, <<f3>>), f2>>)>>)
    /\ max_files \in WalkLimits
    /\ scanned = <<>>
    /\ visited = {}
    /\ ServerUnused
    /\ DetectorUnused

\* walker.scan(path)
ScanStep ==
    /\ handler = "scan"
    /\ phase = "none"
    /\ scanned' = Scan(directory, max_files)
    /\ visited' = {directory.parts}
                  \cup (IF directory.readable
                          THEN WalkedInto(directory.children, directory.parts) ELSE {})
    /\ phase' = "ended"
    /\ UNCHANGED <<env_max_conc, now, handler, target, files_count, all_features,
                   results, metrics, file_score, apiVars, close_failed, callVars>>
    /\ UNCHANGED <<report, directory, max_files, auditVars, detectVars>>

NextWalk == ScanStep

SpecWalk == InitWalk /\ [][NextWalk]_vars

---------------------------------------------------------------------------
(* The server: audit_project invocations, which interleave at their await, *)
(* and the requests for the retained results                               *)

\* audit_project, line 57: AMICOMPAT_MAX_FILES is not set.
DefaultMaxFiles == 10000

AuditSite ==
    Directory(<<"/", "home", "site">>, TRUE,
        <<FileEntry("a.css", ".css", 1, <<Hit("css-has-selector", 2)>>),
          DirEntry("js", TRUE, <<FileEntry("b.js", ".js", 1, <<>>)>>),
          DirEntry("node_modules", TRUE,
              <<FileEntry("x.js", ".js", 1, <<Hit("js-optional-chaining", 1)>>)>>)>>)

AuditPlain ==
    Directory(<<"/", "home", "plain">>, TRUE, <<FileEntry("a.css", ".css", 1, <<>>)>>)

\* Passes validate_project_path, and holds nothing the Walker returns.
AuditFresh ==
    Directory(<<"/", "home", "fresh">>, TRUE,
        <<FileEntry("a.css", ".css", 0, <<>>), DirEntry("private", FALSE, <<>>)>>)

AuditDocs ==
    Directory(<<"/", "home", "docs">>, TRUE, <<FileEntry("readme.txt", ".txt", 1, <<>>)>>)

AuditRequests ==
    {Request(Project(FALSE, FALSE, NoDirectory), "baseline-2024", "none"),
     Request(Project(TRUE, TRUE, AuditDocs), "baseline-2024", "none"),
     Request(Project(TRUE, TRUE, AuditSite), "latest", "none"),
     Request(Project(TRUE, TRUE, AuditFresh), "None", "none"),
     Request(Project(TRUE, TRUE, AuditPlain), "Widely-Available", "ok"),
     Request(Project(TRUE, TRUE, AuditSite), "Baseline-2021", "ok"),
     Request(Project(TRUE, TRUE, AuditSite), "baseline-2024", "fails")}

\* What get_feature_status may return for a feature: a normalised answer
\* of the service or the synthetic record.
AuditStatuses(f) ==
    {ExtractStatus(LimitedBody(f)), ExtractStatus(WidelyBody(f)),
     ExtractStatus(HugeBody(f)), Synthetic(f)}

\* str(file_path.relative_to(path)), line 88.
RECURSIVE JoinParts(_)
JoinParts(parts) ==
    IF Len(parts) = 1 THEN parts[1]
    ELSE JoinParts(SubSeq(parts, 1, Len(parts) - 1)) \o "/" \o parts[Len(parts)]

RelativeTo(parts, root) == JoinParts(SubSeq(parts, Len(root) + 1, Len(parts)))

\* detector.detect on each scanned file, lines 78-79.
Detected(paths, root) ==
    [i \in 1..Len(paths) |-> File(RelativeTo(paths[i].parts, root), paths[i].found)]

\* audit_project, lines 68-72.
NoFilesReport == [error |-> "No supported files found in project"]
NoFilesCharts == [none |-> FALSE]

\* get_last_report and get_last_charts, when nothing is retained.
NoReportMessage == [message |-> "No report available yet"]
NoChartsMessage == [message |-> "No charts available yet"]

restVars ==
    <<env_max_conc, now, runVars, apiVars, close_failed, callVars, report, walkVars,
      detectVars>>

InitAudit ==
    /\ ClientUnused
    /\ handler = "server"
    /\ phase = "none"
    /\ target = ""
    /\ files_count = 0
    /\ all_features = <<>>
    /\ metrics = NoMetrics
    /\ report = NoReport
    /\ WalkerUnused
    /\ ServerUnused
    /\ DetectorUnused

\* audit_project up to the await of line 95: validation, scan, detection.
AuditBegin(k, req) ==
    /\ handler = "server"
    /\ audits[k].pc = "idle"
    /\ \A j \in 1..(k - 1) : audits[j].pc # "idle"
    /\ LET tgt == ValidateTarget(TargetOrDefault(req.target)) IN
       IF ~ValidProjectPath(req.project) \/ tgt = ""
         THEN /\ audits' = [audits EXCEPT ![k] =
                    [NoRun EXCEPT !.pc = "raised", !.request = req,
                                  !.result = Result("ValueError", NoneValue, NoneValue, "")]]
              /\ UNCHANGED finished
         ELSE LET files == Scan(req.project.dir, DefaultMaxFiles) IN
              IF Len(files) = 0
                THEN /\ audits' = [audits EXCEPT ![k] =
                           [NoRun EXCEPT !.pc = "returned", !.request = req, !.target = tgt,
                                         !.result = Result("no_files", NoFilesReport,
                                                           NoFilesCharts, "")]]
                     /\ finished' = Append(finished, k)
                ELSE /\ audits' = [audits EXCEPT ![k] =
                           [NoRun EXCEPT !.pc = "resolving", !.request = req, !.target = tgt,
                                         !.files_count = Len(files),
                                         !.all_features =
                                            MergeDetections(Detected(files,
                                                                     req.project.dir.parts))]]
                     /\ UNCHANGED finished
    /\ UNCHANGED <<last_report, last_charts, retained_from, served>>
    /\ UNCHANGED restVars

\* Mutant: only the report is retained.
RetainReportOnly(k, rep, charts) ==
    /\ last_report' = rep
    /\ last_charts' = last_charts
    /\ retained_from' = [retained_from EXCEPT !.report = k]

\* Lines 110-111: both globals are assigned, with no await in between.
Retain(k, rep, charts) ==
    /\ last_report' = rep
    /\ last_charts' = charts
    /\ retained_from' = [report |-> k, charts |-> k]

\* audit_project from the return of gather to its end: statuses[i] is what
\* the i-th call returned.
AuditFinish(k, statuses) ==
    /\ handler = "server"
    /\ audits[k].pc = "resolving"
    /\ LET features == Attach(audits[k].all_features, statuses) IN
       IF AnalyzeRaises(features)
         THEN /\ audits' = [audits EXCEPT ![k].pc = "raised",
                                          ![k].all_features = features,
                                          ![k].result = Result("OverflowError", NoneValue,
                                                               NoneValue, "")]
              /\ UNCHANGED <<last_report, last_charts, retained_from, finished>>
         ELSE LET m == Analyze(features, audits[k].target)
                  rep == FormatReport(features, m, audits[k].files_count)
                  charts == FormatCharts(m, features)
                  exported == CASE audits[k].request.export = "ok" -> "exported_to"
                                [] audits[k].request.export = "fails" -> "export_error"
                                [] OTHER -> ""
              IN  /\ Retain(k, rep, charts)
                  /\ audits' = [audits EXCEPT ![k].pc = "returned",
                                              ![k].all_features = features,
                                              ![k].result = Result("report", rep, charts,
                                                                   exported)]
                  /\ finished' = Append(finished, k)
    /\ UNCHANGED served
    /\ UNCHANGED restVars

\* What the calls of an invocation may return, by position.
RunStatuses(features) ==
    {st \in [1..Len(features) -> UNION {AuditStatuses(features[i].feature_id) :
                                          i \in 1..Len(features)}] :
        \A i \in 1..Len(features) : st[i] \in AuditStatuses(features[i].feature_id)}

\* The resource report:last.
GetLastReport ==
    /\ handler = "server"
    /\ served' = [request |-> "report:last",
                  answer |-> IF last_report # NoneValue THEN last_report
                             ELSE NoReportMessage]
    /\ UNCHANGED <<audits, last_report, last_charts, retained_from, finished>>
    /\ UNCHANGED restVars

\* The resource charts:last.
GetLastCharts ==
    /\ handler = "server"
    /\ served' = [request |-> "charts:last",
                  answer |-> IF last_charts # NoneValue THEN last_charts
                             ELSE NoChartsMessage]
    /\ UNCHANGED <<audits, last_report, last_charts, retained_from, finished>>
    /\ UNCHANGED restVars

\* The tool export_last_report; written tells whether the file was written.
ExportLastReport(written) ==
    /\ handler = "server"
    /\ served' = [request |-> "export_last_report",
                  answer |-> IF last_report = NoneValue
                               THEN [error |-> "No report to export"]
                             ELSE [ok |-> written]]
    /\ UNCHANGED <<audits, last_report, last_charts, retained_from, finished>>
    /\ UNCHANGED restVars

NextAudit ==
    \/ \E k \in Runs : \E req \in AuditRequests : AuditBegin(k, req)
    \/ \E k \in Runs : \E st \in RunStatuses(audits[k].all_features) : AuditFinish(k, st)
    \/ GetLastReport
    \/ GetLastCharts
    \/ \E written \in BOOLEAN : ExportLastReport(written)

SpecAudit == InitAudit /\ [][NextAudit]_vars

---------------------------------------------------------------------------
(* The scan phase of audit_project on JS files: detection in each file's   *)
(* text, then the merge into the feature aggregates                        *)

\* What the text of the first file is put together from.
Segments ==
    {<<"/", "*">>, <<"*", "/">>, <<"/", "/">>, <<"?", ".">>, <<"?", "?">>,
     <<"1">>, <<"\n">>}

RECURSIVE Concat(_)
Concat(pieces) ==
    IF Len(pieces) = 0 THEN <<>>
    ELSE Concat(SubSeq(pieces, 1, Len(pieces) - 1)) \o pieces[Len(pieces)]

\* The files after the first: none, or one of these texts.
LaterTexts ==
    {<<>>,
     <<<<"?", ".">>>>,
     <<<<"?", ".", "/", "/", "?", "?", "\n", "?", "?", "=", "?", ".">>>>}

DetectPaths == <<"a.js", "lib/b.ts">>

InitDetect ==
    /\ ClientUnused
    /\ handler = "detect"
    /\ phase = "none"
    /\ target = "baseline-2024"
    /\ files_count = 0
    /\ all_features = <<>>
    /\ metrics = NoMetrics
    /\ report = NoReport
    /\ WalkerUnused
    /\ ServerUnused
    /\ \E n \in 0..MaxSegments : \E pieces \in [1..n -> Segments] : \E later \in LaterTexts :
         content = <<Concat(pieces)>> \o later
    /\ detected = <<>>

\* audit_project, lines 76-91, the files being JS files.
DetectStep ==
    /\ handler = "detect"
    /\ phase = "none"
    /\ detected' = [i \in 1..Len(content) |-> DetectJs(content[i])]
    /\ files_count' = Len(content)
    /\ all_features' = MergeDetections([i \in 1..Len(content) |->
                                          File(DetectPaths[i], detected'[i])])
    /\ phase' = "ended"
    /\ UNCHANGED <<env_max_conc, now, handler, target, results, metrics, file_score,
                   apiVars, close_failed, callVars>>
    /\ UNCHANGED <<report, walkVars, auditVars, content>>

NextDetect == DetectStep

SpecDetect == InitDetect /\ [][NextDetect]_vars

---------------------------------------------------------------------------
(* The lookups of one client under the event loop's scheduling: a caller    *)
(* has created a BaselineAPI (entered or not) and creates lookups on it.    *)
(* The event loop runs every task that is ready, a sleep ends, and every    *)
(* request sent comes back with a response or an exception.                 *)

InitSlots ==
    /\ env_max_conc \in EnvValues
    /\ now = 0
    /\ handler = "client"
    /\ phase = "resolving"
    /\ target = ""
    /\ files_count = 0
    /\ all_features = <<>>
    /\ results = <<>>
    /\ metrics = NoMetrics
    /\ file_score = -1
    /\ max_conc = MaxConcOf(env_max_conc)
    /\ semaphore = MaxConcOf(env_max_conc)
    /\ client \in {"open", "None"}
    /\ close_failed = FALSE
    /\ cache = NewCache
    /\ fid = [t \in Calls |-> ""]
    /\ pc = [t \in Calls |-> "idle"]
    /\ response = [t \in Calls |-> NoResponse]
    /\ wait_time = [t \in Calls |-> 0]
    /\ ret = [t \in Calls |-> NoRecord]
    /\ logged = [t \in Calls |-> ""]
    /\ report = NoReport
    /\ WalkerUnused
    /\ ServerUnused
    /\ DetectorUnused

\* What a request comes back with here: one response for each way
\* get_feature_status goes on from it.
SlotResponses(f) ==
    {Http(200, NoText, TRUE, LimitedBody(f), <<>>),
     Http(429, NoText, TRUE, EmptyBody, <<>>),
     Http(404, NoText, TRUE, EmptyBody, <<>>),
     Raised("timeout")}
SlotSearchResponses(f) ==
    {Http(200, NoText, TRUE, EmptyBody, <<LimitedBody(f)>>),
     Http(200, NoText, TRUE, EmptyBody, <<>>)}

ArriveDirect(t) == \E r \in SlotResponses(fid[t]) : Arrive(t, "direct", r)
ArriveRetry(t) == \E r \in SlotResponses(fid[t]) : Arrive(t, "retry", r)
ArriveSearch(t) == \E r \in SlotSearchResponses(fid[t]) : Arrive(t, "search", r)

NextSlots ==
    \/ ClientCall(ClientFeature)
    \/ \E t \in Calls : Begin(t)
    \/ \E t \in Calls : Admit(t)
    \/ \E t \in Calls : ArriveDirect(t)
    \/ \E t \in Calls : AfterDirect(t)
    \/ \E t \in Calls : Wake(t)
    \/ \E t \in Calls : ArriveRetry(t)
    \/ \E t \in Calls : AfterRetry(t)
    \/ \E t \in Calls : ArriveSearch(t)
    \/ \E t \in Calls : AfterSearch(t)

\* One stretch of call t: it runs up to its next suspension, or the request
\* or the sleep it is suspended on completes.  At most one of these is
\* possible at a time.
CallStep(t) ==
    \/ Begin(t)
    \/ Admit(t)
    \/ ArriveDirect(t)
    \/ AfterDirect(t)
    \/ Wake(t)
    \/ ArriveRetry(t)
    \/ AfterRetry(t)
    \/ ArriveSearch(t)
    \/ AfterSearch(t)

\* Every task that can run is run, and every request comes back.
FairSlots == \A t \in Calls : WF_vars(CallStep(t))

SpecSlots == InitSlots /\ [][NextSlots]_vars /\ FairSlots

---------------------------------------------------------------------------
(* Properties of the status client *)

InFetch == {"direct", "got_direct", "sleep", "retry", "got_retry", "search", "got_search"}
Awaiting == {"direct", "retry", "search"}
Got == {"got_direct", "got_retry", "got_search"}

\* The call starts: its first stretch runs.
Begins(t) == phase = "resolving" /\ pc[t] = "pending" /\ pc'[t] # "pending"

\* The call resumes with the result of a request.
Resumes(t) == phase = "resolving" /\ pc[t] \in Got /\ pc'[t] # pc[t]

\* The call returns.
Returns(t) == phase = "resolving" /\ pc[t] # "done" /\ pc'[t] = "done"

EntryIsFresh(f) == cache[f].present /\ now - cache[f].timestamp < CacheDuration

\* The result the call resumes with is a 200 whose body parses and
\* normalises (for the search: with a first result).
GotNormalisable(t) ==
    /\ response[t].kind = "http"
    /\ response[t].status = 200
    /\ response[t].json_ok
    /\ pc[t] = "got_search" => Len(response[t].data) > 0

\* The result the call resumes with is a 200 (for the search: with a first
\* result), whatever its body.
Got200(t) ==
    /\ response[t].kind = "http"
    /\ response[t].status = 200
    /\ pc[t] = "got_search" => (response[t].json_ok /\ Len(response[t].data) > 0)

GotBody(t) == IF pc[t] = "got_search" THEN response[t].data[1] ELSE response[t].obj

\* C1: every record get_feature_status returns carries the requested
\* feature id.
C1_ReturnsRequestedId ==
    \A t \in Calls : pc[t] = "done" => ret[t].id = fid[t]

\* C2 as stated: while every earlier call lies within the TTL window (less
\* than the TTL has passed since the process started), a call for an id
\* that an earlier call on the same client has returned for sends no
\* request and takes no slot.
C2_SecondCallSendsNothing ==
    [][\A t \in Calls :
        (/\ Begins(t)
         /\ now < CacheDuration
         /\ \E u \in Calls : u # t /\ pc[u] = "done" /\ fid[u] = fid[t])
        => (pc'[t] = "done" /\ semaphore' = semaphore)]_vars

\* C2 amended: a record fetched by an earlier call is in the cache, and a
\* call for an id whose cache entry is younger than the TTL sends no
\* request, takes no slot, leaves the cache alone and returns the cached
\* record.
C2_FreshEntrySendsNothing ==
    [][/\ \A u \in Calls :
            (pc[u] = "done" /\ logged[u] = "fetched") => cache[fid[u]].present
       /\ \A t \in Calls :
            (Begins(t) /\ EntryIsFresh(fid[t]))
            => (/\ pc'[t] = "done"
                /\ semaphore' = semaphore
                /\ cache' = cache
                /\ ret'[t] = cache[fid[t]].data)]_vars

\* Witness: a second call on an open client returned the record the first
\* one fetched, without fetching.
C2_Witness ==
    \E t, u \in Calls :
        /\ t # u /\ fid[t] = fid[u] /\ client = "open"
        /\ pc[u] = "done" /\ logged[u] = "fetched"
        /\ pc[t] = "done" /\ logged[t] = "" /\ ret[t] = ret[u]

\* C3: a call that returns on a failure path returns the cached record of
\* its id if there is one, however old, and the synthetic record only when
\* there is none.
C3_FailureReturnsCachedOrSynthetic ==
    [][\A t \in Calls :
        (/\ Returns(t)
         /\ \/ pc[t] \in Got /\ ~GotNormalisable(t)
            \/ pc[t] \in {"pending", "acquire"} /\ ~EntryIsFresh(fid[t]))
        => ret'[t] =
             IF cache[fid[t]].present THEN cache[fid[t]].data
             ELSE [id |-> fid[t], baseline_status |-> "limited",
                   browsers |-> NoBrowsers, error |-> TRUE]]_vars

\* Witness: a failed call returned an entry that is older than the TTL.
C3_Witness ==
    \E t \in Calls :
        /\ pc[t] = "done" /\ logged[t] = "expired_cache"
        /\ cache[fid[t]].present /\ now - cache[fid[t]].timestamp >= CacheDuration
        /\ ret[t] = cache[fid[t]].data /\ ~ret[t].error

Rank(p) ==
    CASE p = "idle" -> 0 [] p = "pending" -> 1 [] p = "acquire" -> 2
      [] p = "direct" -> 3 [] p = "got_direct" -> 4 [] p = "sleep" -> 5
      [] p = "retry" -> 6 [] p = "got_retry" -> 7 [] p = "search" -> 8
      [] p = "got_search" -> 9 [] p = "done" -> 10

\* C4: within one call the requests follow the resolution order.  A call
\* only moves forward (so it sends at most two direct fetches and one
\* search); the first direct fetch is sent on entering the fetch section;
\* the backoff is entered only on a 429 to the first direct fetch and lasts
\* the Retry-After value, or 1 second without a parsable one; the retry is
\* sent only when the backoff ends; the search is sent only on a 404 to the
\* last direct fetch; a 429 to the retry ends the call as a failure.
C4_ResolutionOrder ==
    [][\A t \in Calls :
        (phase = "resolving" /\ pc'[t] # pc[t])
        => (/\ Rank(pc'[t]) > Rank(pc[t])
            /\ pc'[t] = "direct" => pc[t] \in {"pending", "acquire"}
            /\ pc'[t] = "sleep" =>
                 /\ pc[t] = "got_direct"
                 /\ response[t].status = 429
                 /\ wait_time'[t] =
                      IF IsNumber(response[t].retry_after)
                        THEN NumberVal(response[t].retry_after) ELSE 1
            /\ pc'[t] = "retry" => pc[t] = "sleep"
            /\ pc'[t] = "search" =>
                 /\ pc[t] \in {"got_direct", "got_retry"}
                 /\ response[t].status = 404
            /\ (pc[t] = "got_direct" /\ response[t].kind = "http"
                  /\ response[t].status = 429) => pc'[t] = "sleep"
            /\ (pc[t] = "got_retry" /\ response[t].kind = "http"
                  /\ response[t].status = 429) =>
                 /\ pc'[t] = "done"
                 /\ cache' = cache
                 /\ logged'[t] \in {"expired_cache", "no_data"})]_vars

\* Witness: the retry that followed a backoff was answered 429 again.
C4_Witness ==
    \E t \in Calls :
        pc[t] = "got_retry" /\ response[t].kind = "http" /\ response[t].status = 429

\* C5 as stated: every 200 (for the search: with a first result) is
\* stored under the requested id with the current time and returned.
C5_Every200Stored ==
    [][\A t \in Calls :
        (Resumes(t) /\ Got200(t))
        => (/\ pc'[t] = "done"
            /\ cache'[fid[t]].present
            /\ cache'[fid[t]].timestamp = now
            /\ ret'[t] = cache'[fid[t]].data)]_vars

\* C5 amended: every 200 whose body parses and normalises (for the search:
\* with a first result) is stored, normalised, under the requested id with
\* the current time, replacing what was there, and is what the call
\* returns; no other entry changes.
C5_NormalisedResponseStored ==
    [][\A t \in Calls :
        (Resumes(t) /\ GotNormalisable(t))
        => (/\ pc'[t] = "done"
            /\ cache'[fid[t]] = [present |-> TRUE,
                                 data |-> ExtractStatus(GotBody(t)),
                                 timestamp |-> now]
            /\ ret'[t] = cache'[fid[t]].data
            /\ \A g \in Features : g # fid[t] => cache'[g] = cache[g])]_vars

\* Witness: an entry an earlier call had fetched was replaced, after the
\* TTL, by the different record a later call fetched.
C5_Witness ==
    \E t, u \in Calls :
        /\ t # u /\ fid[t] = fid[u]
        /\ pc[u] = "done" /\ logged[u] = "fetched"
        /\ pc[t] = "done" /\ logged[t] = "fetched" /\ ret[t] # ret[u]
        /\ now >= CacheDuration
        /\ cache[fid[t]] = [present |-> TRUE, data |-> ret[t], timestamp |-> now]

\* C6: the calls inside the fetch section are at most as many as the gate
\* has slots, each of them holds a slot, and the gate has 5 slots by
\* default and never fewer than 1.
C6_BoundedConcurrency ==
    /\ max_conc >= 1
    /\ ~env_max_conc.set => max_conc = 5
    /\ Cardinality({t \in Calls : pc[t] \in InFetch}) <= max_conc
    /\ semaphore = max_conc - Cardinality({t \in Calls : pc[t] \in InFetch})

\* Witness: the gate is full and a call waits for a slot.
C6_Witness ==
    /\ semaphore = 0
    /\ \E t \in Calls : pc[t] = "acquire"
    /\ Cardinality({t \in Calls : pc[t] \in InFetch}) = max_conc

\* C7: when the resolution phase of audit_project or audit_file has ended,
\* every detected feature carries a status, the one its own lookup
\* returned, and audit_project has analysed all of them.
C7_EveryFeatureResolved ==
    (handler \in {"audit_project", "audit_file"} /\ phase = "ended")
    => /\ \A i \in 1..Len(all_features) :
            /\ all_features[i].status # NoRecord
            /\ fid[i] = all_features[i].feature_id
            /\ all_features[i].status = ret[i]
       /\ (handler = "audit_project" /\ files_count > 0)
            => metrics.total_features = Len(all_features)

\* Witness: an audit ended with one lookup failed and the other fetched.
C7_Witness ==
    /\ handler = "audit_project" /\ phase = "ended" /\ Len(all_features) = 2
    /\ logged[1] = "no_data" /\ all_features[1].status.error
    /\ logged[2] = "fetched" /\ all_features[2].status = ret[2]
    /\ all_features[2].status.baseline_status = "widely"

\* C8: a handler's client is open throughout its resolution phase and is
\* released, the reference reset, when the phase is over, also when
\* aclose() raises; a request is in flight only on an open client.
C8_ClientScopedToPhase ==
    /\ phase # "resolving" => client = "None"
    /\ (phase = "resolving" /\ handler # "client") => client = "open"
    /\ \A t \in Calls : pc[t] \in Awaiting \cup Got => client = "open"

\* Witness: the phase of an audit ended with aclose() raising.
C8_Witness ==
    /\ handler = "audit_project" /\ phase = "ended" /\ close_failed
    /\ client = "None"
    /\ \E t \in Calls : pc[t] = "done" /\ logged[t] = "fetched"

\* C9: an entry of the cache stays in the cache, from one run to the next.
C9_EntriesPersistAcrossRuns ==
    [][\A f \in Features : cache[f].present => cache'[f].present]_vars

---------------------------------------------------------------------------
(* Properties of the analyzer *)

\* C10: global_score and every browser's coverage lie between 0 and 100
\* (1000 tenths); for an empty feature set the score and every coverage
\* are exactly 100, the counts are 0 and top_risks is empty.
C10_ScoresInRange ==
    (handler = "analyze" /\ phase = "ended")
    => /\ metrics.global_score >= 0 /\ metrics.global_score <= 1000
       /\ \A b \in Browsers :
            metrics.browser_coverage[b] >= 0 /\ metrics.browser_coverage[b] <= 1000
       /\ Len(all_features) = 0 =>
            /\ metrics.global_score = 1000
            /\ \A b \in Browsers : metrics.browser_coverage[b] = 1000
            /\ metrics.widely_count = 0 /\ metrics.newly_count = 0
            /\ metrics.limited_count = 0 /\ metrics.total_features = 0
            /\ metrics.top_risks = <<>>

\* Witness: analyze has been applied to the empty feature set.
C10_Witness ==
    handler = "analyze" /\ phase = "ended" /\ Len(all_features) = 0
    /\ metrics.global_score = 1000


Abs(x) == IF x < 0 THEN -x ELSE x

Analysed == handler = "analyze" /\ phase = "ended"

WithStatus(v) ==
    {i \in 1..Len(all_features) : all_features[i].status.baseline_status = v}

\* C11: every aggregate is counted in exactly one bucket, the counts add up
\* to total_features, the number of aggregates, and global_score is
\* (widely + newly / 2) / total_features * 100 to one decimal (it is the
\* tenth nearest to that value); one limited and one widely feature give
\* total 2, limited 1, widely 1, score 50.0 and the limited id as top_risks.
C11_CountsAndScore ==
    (Analysed /\ Len(all_features) > 0)
    => LET n == Len(all_features)
           w == Cardinality(WithStatus("widely"))
           nw == Cardinality(WithStatus("newly"))
       IN  /\ metrics.widely_count = w
           /\ metrics.newly_count = nw
           /\ metrics.limited_count = n - w - nw
           /\ metrics.total_features = n
           /\ Abs(2 * n * metrics.global_score - (2 * w + nw) * 1000) <= n
           /\ (n = 2 /\ w = 1 /\ Cardinality(WithStatus("limited")) = 1)
                => /\ metrics.global_score = 500
                   /\ \A i \in WithStatus("limited") :
                        metrics.top_risks = <<all_features[i].feature_id>>

\* Witness: analyze has been applied to one limited and one widely feature.
C11_Witness ==
    /\ Analysed /\ Len(all_features) = 2
    /\ all_features[1].status.baseline_status = "limited"
    /\ all_features[2].status.baseline_status = "widely"
    /\ metrics.global_score = 500 /\ metrics.limited_count = 1
    /\ metrics.top_risks = <<"css-has-selector">>

\* The text of a version before its first dot.
MajorText(v) ==
    LET dots == {k \in 1..Len(v) : v[k] = "."}
        cut == IF dots = {} THEN Len(v) + 1
               ELSE CHOOSE k \in dots : \A j \in dots : k <= j
    IN  SubSeq(v, 1, cut - 1)

\* The feature's support map names the browser with a version whose major
\* number is at least min (in tenths).
MeetsMinimum(entry, min) ==
    /\ entry.present
    /\ IsNumber(MajorText(entry.version))
    /\ NumberVal(MajorText(entry.version)) * 10 >= min

SupportedOn(b, mins) ==
    {i \in 1..Len(all_features) :
        MeetsMinimum(all_features[i].status.browsers[b], mins[b])}

IsPercentOf(cov, part, whole) == 2 * Abs(whole * cov - part * 1000) <= whole

\* C14: for each browser a feature counts as supported exactly when the
\* browser is in its support map with a version whose major number (the
\* text before the first dot) is at least the target's minimum, and as
\* unsupported otherwise; the browser's coverage is the percentage, to one
\* decimal, of the features that count as supported.
C14_BrowserCoverage ==
    (Analysed /\ Len(all_features) > 0)
    => \A b \in Browsers :
         IsPercentOf(metrics.browser_coverage[b],
                     Cardinality(SupportedOn(b, TargetVersions(target))),
                     Len(all_features))

\* Witness: of two features one is supported on safari ("17.4" against 17)
\* and one has a version that does not parse and no entry for edge.
C14_Witness ==
    /\ Analysed /\ Len(all_features) = 2 /\ target = "baseline-2024"
    /\ all_features[1].status.browsers["safari"].version = <<"1", "7", ".", "4">>
    /\ all_features[2].status.browsers["safari"].version = <<"p", "r", "e">>
    /\ ~all_features[2].status.browsers["edge"].present
    /\ metrics.browser_coverage["safari"] = 500

Baseline2024 ==
    [b \in Browsers |->
        CASE b = "chrome" -> 1210 [] b = "firefox" -> 1220
          [] b = "safari" -> 170 [] b = "edge" -> 1210]

---------------------------------------------------------------------------
(* Properties of the risk ranking and of the report *)

Ranked == handler = "analyze" /\ phase \in {"ended", "formatted"}
Formatted == handler = "analyze" /\ phase = "formatted"

AggregateOf(id) == all_features[IndexOf(all_features, id)]
StatusOf(id) == AggregateOf(id).status.baseline_status
HitsOf(id) == AggregateOf(id).total_hits
FilesOf(id) == Len(AggregateOf(id).files)

NotWidely ==
    {all_features[i].feature_id : i \in {k \in 1..Len(all_features) :
        all_features[k].status.baseline_status # "widely"}}

Named(ids) == {ids[i] : i \in 1..Len(ids)}

\* C12: top_risks has at most 5 entries, no entry twice, only ids of the
\* input, none of a widely feature; with at most 5 features that are not
\* widely it names all of them.
C12_TopRisksBounded ==
    Ranked
    => LET tr == metrics.top_risks IN
       /\ Len(tr) <= 5
       /\ \A i, j \in 1..Len(tr) : i # j => tr[i] # tr[j]
       /\ Named(tr) \subseteq NotWidely
       /\ Cardinality(NotWidely) <= 5 => Named(tr) = NotWidely

\* Witness: six features that are not widely, five of them named.
C12_Witness ==
    /\ Ranked /\ Len(all_features) = 6 /\ Cardinality(NotWidely) = 6
    /\ Len(metrics.top_risks) = 5

\* x comes before y in the order of the claim: limited before newly, then
\* more hits, then more files.
SortsBefore(x, y) ==
    \/ StatusOf(x) = "limited" /\ StatusOf(y) = "newly"
    \/ StatusOf(x) = StatusOf(y) /\ HitsOf(x) > HitsOf(y)
    \/ StatusOf(x) = StatusOf(y) /\ HitsOf(x) = HitsOf(y) /\ FilesOf(x) > FilesOf(y)

\* C13: in top_risks no entry stands after one it sorts before (limited
\* before newly whatever the hits, then more hits first, then more files
\* first), and no feature left out sorts before one that was kept.
C13_RiskOrder ==
    Ranked
    => LET tr == metrics.top_risks IN
       /\ \A i, j \in 1..Len(tr) : i < j => ~SortsBefore(tr[j], tr[i])
       /\ \A x \in NotWidely \ Named(tr) : \A i \in 1..Len(tr) : ~SortsBefore(x, tr[i])

\* Witness: a limited feature with 1 hit stands before a newly one with 2,
\* a limited feature in two files stands before one detected earlier with
\* the same hits in one file, and a sixth risk was cut.
C13_Witness ==
    /\ Ranked /\ Cardinality(NotWidely) = 6
    /\ LET tr == metrics.top_risks IN
       /\ \E i, j \in 1..Len(tr) :
            /\ i < j /\ StatusOf(tr[i]) = "limited" /\ StatusOf(tr[j]) = "newly"
            /\ HitsOf(tr[i]) < HitsOf(tr[j])
       /\ \E i, j \in 1..Len(tr) :
            /\ i < j /\ StatusOf(tr[i]) = "limited" /\ StatusOf(tr[j]) = "limited"
            /\ HitsOf(tr[i]) = HitsOf(tr[j]) /\ FilesOf(tr[i]) > FilesOf(tr[j])
            /\ IndexOf(all_features, tr[j]) < IndexOf(all_features, tr[i])

\* The position of a feature in the report's feature list.
PlaceOf(id) == CHOOSE k \in 1..Len(report.features) : report.features[k].id = id

\* C16 as stated: the features named in top_risks stand in the report's
\* feature list in the order of top_risks, and before every widely feature.
C16_ReportFollowsTopRisks ==
    Formatted
    => LET tr == metrics.top_risks IN
       /\ \A i, j \in 1..Len(tr) : i < j => PlaceOf(tr[i]) < PlaceOf(tr[j])
       /\ \A i \in 1..Len(tr) : \A k \in 1..Len(report.features) :
            report.features[k].status = "widely" => PlaceOf(tr[i]) < k

RankOf(status) == IF status = "limited" THEN 0 ELSE IF status = "newly" THEN 1 ELSE 2

\* C16 amended: the report lists every feature once, ordered by status
\* (limited, then newly, then any other value) and then by more hits, the
\* features alike in both in the order of detection.  So two features of
\* top_risks with status limited or newly that differ in status or in hits
\* stand in the order of top_risks, and each such feature stands before
\* every widely feature.
C16_ReportOrder ==
    Formatted
    => LET tr == metrics.top_risks
           fl == report.features
       IN
       /\ Len(fl) = Len(all_features)
       /\ \A i \in 1..Len(all_features) : \E k \in 1..Len(fl) :
            /\ fl[k].id = all_features[i].feature_id
            /\ fl[k].status = all_features[i].status.baseline_status
            /\ fl[k].total_hits = all_features[i].total_hits
       /\ \A i, j \in 1..Len(fl) : i < j =>
            /\ RankOf(fl[i].status) <= RankOf(fl[j].status)
            /\ RankOf(fl[i].status) = RankOf(fl[j].status)
                 => fl[i].total_hits >= fl[j].total_hits
            /\ (RankOf(fl[i].status) = RankOf(fl[j].status)
                  /\ fl[i].total_hits = fl[j].total_hits)
                 => IndexOf(all_features, fl[i].id) < IndexOf(all_features, fl[j].id)
       /\ \A i, j \in 1..Len(tr) :
            (/\ i < j
             /\ {StatusOf(tr[i]), StatusOf(tr[j])} \subseteq {"limited", "newly"}
             /\ (StatusOf(tr[i]) # StatusOf(tr[j]) \/ HitsOf(tr[i]) # HitsOf(tr[j])))
            => PlaceOf(tr[i]) < PlaceOf(tr[j])
       /\ \A i \in 1..Len(tr) : \A k \in 1..Len(fl) :
            (StatusOf(tr[i]) \in {"limited", "newly"} /\ fl[k].status = "widely")
            => PlaceOf(tr[i]) < k

\* Witness: two limited features with the same hits stand in the report in
\* the order of detection and in top_risks in the order of their files,
\* and a newly feature stands before a widely one detected earlier.
C16_Witness ==
    /\ Formatted
    /\ LET tr == metrics.top_risks IN
       /\ \E i, j \in 1..Len(tr) :
            /\ i < j /\ PlaceOf(tr[j]) < PlaceOf(tr[i])
            /\ StatusOf(tr[i]) = "limited" /\ StatusOf(tr[j]) = "limited"
       /\ \E i \in 1..Len(tr) : \E k \in 1..Len(report.features) :
            /\ StatusOf(tr[i]) = "newly" /\ report.features[k].status = "widely"
            /\ PlaceOf(tr[i]) < k
            /\ IndexOf(all_features, report.features[k].id) < IndexOf(all_features, tr[i])

\* The recommendation fits the feature: a polyfill-like one for a limited
\* feature, a test in older browsers for a newly one.
FitsRisk(act, id) ==
    \/ /\ StatusOf(id) = "limited"
       /\ act.kind \in {"container", "subgrid", "has", "dialog", "polyfill"}
       /\ act.kind = "polyfill" => act.feature = id
       /\ act.kind \in {"container", "subgrid", "has"} => act.file = AggregateOf(id).files[1].path
    \/ /\ StatusOf(id) = "newly"
       /\ act.kind = "test"
       /\ act.feature = id

IsPositive(act) == act.kind \in {"good", "none"}

\* C17 as stated: next_actions holds one fitting recommendation per top
\* risk, in rank order, and one positive message when there is no risk.
C17_OneActionPerTopRisk ==
    Formatted
    => LET tr == metrics.top_risks
           na == report.next_actions
       IN  /\ Len(na) >= 1 /\ Len(na) <= 5
           /\ Len(tr) = 0 => (Len(na) = 1 /\ IsPositive(na[1]))
           /\ Len(tr) > 0 =>
                /\ Len(na) = Len(tr)
                /\ \A i \in 1..Len(tr) : FitsRisk(na[i], tr[i])

Actionable(id) == StatusOf(id) \in {"limited", "newly"}

\* C17 amended: next_actions holds one fitting recommendation for each of
\* the first 3 top risks whose status is limited or newly, in rank order,
\* and nothing for the other top risks; when that leaves no recommendation
\* it is exactly one positive message; it is never empty and never longer
\* than 3.
C17_ActionsOfFirstThree ==
    Formatted
    => LET tr == metrics.top_risks
           na == report.next_actions
           first == SubSeq(tr, 1, IF Len(tr) < 3 THEN Len(tr) ELSE 3)
           acted == SelectSeq(first, Actionable)
       IN  /\ Len(na) >= 1 /\ Len(na) <= 3
           /\ Len(acted) = 0 =>
                /\ Len(na) = 1
                /\ na[1].kind = IF Len(all_features) > 0 THEN "good" ELSE "none"
           /\ Len(acted) > 0 =>
                /\ Len(na) = Len(acted)
                /\ \A i \in 1..Len(acted) : FitsRisk(na[i], acted[i])

\* Witness: five top risks, three recommendations, the second for a newly
\* feature.
C17_Witness ==
    /\ Formatted /\ Len(metrics.top_risks) = 5 /\ Len(report.next_actions) = 3
    /\ report.next_actions[1].kind = "has"
    /\ report.next_actions[3].kind = "test"


---------------------------------------------------------------------------
(* Properties of the walker *)

Scanned == handler = "scan" /\ phase = "ended"

\* C20: every path Walker.scan returns is a regular file with a supported
\* extension (in any case), a size above 0 and of at most 2 MiB, and no
\* excluded name among its parts; no directory with an excluded name was
\* walked into.
C20_ScanEmitsOnlyEligibleFiles ==
    Scanned
    => /\ \A i \in 1..Len(scanned) :
            /\ scanned[i].kind = "file"
            /\ \/ scanned[i].suffix \in Extensions
               \/ scanned[i].suffix \in {".CSS", ".Js", ".HTML"}
            /\ scanned[i].size > 0
            /\ scanned[i].size <= 2097152
            /\ \A k \in 1..Len(scanned[i].parts) : scanned[i].parts[k] \notin ExcludedDirs
       /\ \A d \in visited \ {directory.parts} : d[Len(d)] \notin ExcludedDirs

\* Witness: one file of exactly 2 MiB and one with an upper-case extension
\* are returned, next to an empty file and to a directory named dist that
\* holds an eligible file and is left out.
C20_Witness ==
    /\ Scanned
    /\ Len(scanned) = 2
    /\ scanned[1].size = MaxFileSize
    /\ scanned[2].suffix = ".Js"
    /\ visited = {<<"/", "home", "app">>, <<"/", "home", "app", "Build">>}
    /\ directory.children[2].children[1].name = "dist"
    /\ directory.children[2].children[1].children[1].size = 1
    /\ directory.children[2].children[1].children[1].suffix = ".css"


---------------------------------------------------------------------------
(* Properties of the server *)

\* What report:last and charts:last would answer now.
ReportNow == IF last_report # NoneValue THEN last_report ELSE NoReportMessage
ChartsNow == IF last_charts # NoneValue THEN last_charts ELSE NoChartsMessage

\* C18: before any audit run has returned, report:last and charts:last
\* answer that nothing is available; afterwards they answer the report and
\* the charts of the run that returned last.
C18_LastIsMostRecentRun ==
    IF Len(finished) = 0
      THEN ReportNow = NoReportMessage /\ ChartsNow = NoChartsMessage
      ELSE LET k == finished[Len(finished)] IN
           /\ retained_from = [report |-> k, charts |-> k]
           /\ ReportNow = audits[k].result.report
           /\ ChartsNow = audits[k].result.charts

\* C19: an invocation raises only out of validation.
C19_RaisesOnlyFromValidation ==
    \A k \in Runs : audits[k].pc = "raised" => audits[k].result.kind = "ValueError"


\* The paths of a scan of the same directory without a limit.
Unlimited == WalkDirectory(directory.children, directory.parts)

\* C21: the returned list has at most max_files entries and is a prefix of
\* the list of the scan without a limit; the scan returns, it does not
\* raise, when the limit is reached and when a directory cannot be read.
C21_ScanStopsAtLimit ==
    (handler = "scan" /\ phase # "none")
    => /\ phase = "ended"
       /\ Len(scanned) <= max_files
       /\ Len(scanned) <= Len(Unlimited)
       /\ scanned = SubSeq(Unlimited, 1, Len(scanned))
       /\ Len(scanned) < max_files => scanned = Unlimited

\* Witness: three eligible files and a limit of two.
C21_Witness ==
    /\ Scanned /\ max_files = 2 /\ Len(Unlimited) = 3 /\ Len(scanned) = 2

\* Witness: an unreadable subdirectory holds eligible files, and the scan
\* returns the one file found outside it.
C21_WitnessDenied ==
    /\ Scanned /\ max_files = 2 /\ Len(scanned) = 1
    /\ ~directory.children[2].readable
    /\ directory.children[2].name = "src"
    /\ directory.children[2].children[2].size = 1
    /\ directory.children[2].children[2].suffix = ".css"


\* The files below a directory that the claim calls eligible, by the parts
\* of their paths below the root: regular files with a supported extension
\* and a size above 0 and of at most 2 MiB, reached through readable
\* directories none of which has an excluded name.
RECURSIVE EligibleBelow(_, _)
EligibleBelow(children, below) ==
    UNION {LET item == children[i]
               path == Append(below, item.name)
           IN  IF item.kind = "dir"
                 THEN IF item.name \notin ExcludedDirs /\ item.readable
                        THEN EligibleBelow(item.children, path)
                        ELSE {}
               ELSE IF /\ item.kind = "file"
                       /\ Lower(item.suffix) \in Extensions
                       /\ item.size > 0
                       /\ item.size <= MaxFileSize
                 THEN {path}
               ELSE {}
           : i \in 1..Len(children)}

\* The returned paths, by their parts below the root.
ScannedBelow ==
    {SubSeq(scanned[i].parts, Len(directory.parts) + 1, Len(scanned[i].parts)) :
        i \in 1..Len(scanned)}

\* C29: when the limit is not reached, the scan returns exactly the
\* eligible files below the root, whatever the root's path is.
C29_ScanDependsOnlyOnBelowRoot ==
    (Scanned /\ Len(scanned) < max_files)
    => ScannedBelow = EligibleBelow(directory.children, <<>>)


---------------------------------------------------------------------------
(* Properties of the detector and of the merge *)

Detection == handler = "detect" /\ phase = "ended"

\* A text with its comments emptied, read as JavaScript reads them: a //
\* outside a comment opens one that runs to the end of the line, a /*
\* outside a comment opens one that runs to the nearest */.
RECURSIVE WithoutComments(_, _, _)
WithoutComments(s, i, in_line) ==
    IF i > Len(s) THEN <<>>
    ELSE IF s[i] = "\n" THEN <<"\n">> \o WithoutComments(s, i + 1, FALSE)
    ELSE IF in_line THEN WithoutComments(s, i + 1, TRUE)
    ELSE IF StartsWith(s, i, <<"/", "/">>) THEN WithoutComments(s, i + 2, TRUE)
    ELSE IF StartsWith(s, i, <<"/", "*">>) /\ FirstClose(s, i + 2) # 0
      THEN WithoutComments(s, FirstClose(s, i + 2) + 2, FALSE)
    ELSE <<s[i]>> \o WithoutComments(s, i + 1, FALSE)

HitsIn(found, id) ==
    IF \E k \in 1..Len(found) : found[k].feature_id = id
      THEN (CHOOSE h \in {found[k] : k \in 1..Len(found)} : h.feature_id = id).hits
      ELSE 0

\* C22: no rule of the js group has more hits in a text than in the same
\* text with its comments emptied: what stands only inside a comment adds
\* nothing.
C22_CommentsAddNoHits ==
    Detection
    => \A i \in 1..Len(content) : \A n \in 1..Len(JsRules) :
         HitsIn(detected[i], JsRules[n].id)
           <= CountMatches(WithoutComments(content[i], 1, FALSE), 1, JsRules[n])


\* The place of a path in the scan order.
ScanIndex(path) == CHOOSE i \in 1..Len(DetectPaths) : DetectPaths[i] = path

\* C23: after the merge every aggregate's total_hits is the sum of the
\* hits of its file entries, every file entry has at least one hit (the
\* count the detector found in that file), a file stands at most once in a
\* feature's list and the list is in scan order, no feature id has two
\* aggregates, and a feature has an aggregate only if some file matched.
C23_AggregatesAreSums ==
    Detection
    => /\ \A i \in 1..Len(all_features) :
            LET a == all_features[i] IN
            /\ a.total_hits = SumHits(a.files)
            /\ Len(a.files) >= 1
            /\ \A k \in 1..Len(a.files) :
                 /\ a.files[k].hits >= 1
                 /\ a.files[k].hits = HitsIn(detected[ScanIndex(a.files[k].path)],
                                             a.feature_id)
            /\ \A k, l \in 1..Len(a.files) :
                 k < l => ScanIndex(a.files[k].path) < ScanIndex(a.files[l].path)
            /\ \A j \in 1..Len(all_features) :
                 i # j => all_features[j].feature_id # a.feature_id
       /\ \A n \in 1..Len(JsRules) :
            (IndexOf(all_features, JsRules[n].id) # 0)
              <=> (\E i \in 1..Len(content) :
                     CountMatches(StripBlockComments(
                                     StripLineComments(content[i], 1, FALSE), 1),
                                  1, JsRules[n]) > 0)
       /\ \A n \in 1..Len(JsRules) : \A i \in 1..Len(content) :
            LET k == IndexOf(all_features, JsRules[n].id) IN
            HitsIn(detected[i], JsRules[n].id) > 0
              => \E e \in 1..Len(all_features[k].files) :
                   all_features[k].files[e].path = DetectPaths[i]

\* Witness: optional chaining stands once in the first file and twice in
\* the second, nullish coalescing only inside a comment and before a =.
C23_Witness ==
    /\ Detection
    /\ Len(content) = 2
    /\ Len(all_features) = 1
    /\ all_features[1].feature_id = "js-optional-chaining"
    /\ all_features[1].total_hits = 3
    /\ all_features[1].files = <<[path |-> "a.js", hits |-> 1], [path |-> "lib/b.ts", hits |-> 2]>>
    /\ \E i \in 1..Len(content[2]) : StartsWith(content[2], i, <<"?", "?">>)

---------------------------------------------------------------------------
(* Properties of concurrent lookups on one client *)

\* Another call for the same id is in the fetch section or has returned.
Duplicated(t) ==
    \E u \in Calls :
        u # t /\ fid[u] = fid[t] /\ (pc[u] \in InFetch \/ pc[u] = "done")

Fetched(f) == {t \in Calls : fid[t] = f /\ pc[t] = "done" /\ logged[t] = "fetched"}

\* C24: nothing keeps two calls for the same uncached id from being in the
\* fetch section together, and it does no harm: each of them returns the
\* record normalised from its own successful response (writing it to the
\* cache as the entry of that id) or, failing, the fallback for that id
\* (leaving the cache alone); and whenever the cache holds an entry for an
\* id, it is the one entry of that id and its record is the record returned
\* by one of the calls that fetched it.
C24_DuplicateFetchesAreHarmless ==
    /\ [](\A f \in Features :
            cache[f].present => \E t \in Fetched(f) : cache[f].data = ret[t])
    /\ [][\A t \in Calls :
            (pc[t] \in Got /\ pc'[t] = "done" /\ Duplicated(t))
            => IF GotNormalisable(t)
                 THEN /\ ret'[t] = ExtractStatus(GotBody(t))
                      /\ ~ret'[t].error
                      /\ cache' = [cache EXCEPT ![fid[t]] = Entry(ret'[t], now)]
                 ELSE /\ ret'[t] = Fallback(cache, fid[t])
                      /\ cache' = cache]_vars

\* Witness: two calls for the same id were in the fetch section together
\* (no time has passed, so no entry has expired), both fetched, with
\* different records, and the cache holds the record of one of them.
C24_Witness ==
    \E t, u \in Calls :
        /\ t # u /\ fid[t] = fid[u] /\ now = 0
        /\ t \in Fetched(fid[t]) /\ u \in Fetched(fid[t])
        /\ ret[t] # ret[u]
        /\ cache[fid[t]].data = ret[u]

---------------------------------------------------------------------------
(* Properties of the slots *)

Inside == {t \in Calls : pc[t] \in InFetch}

\* C25: a slot is never leaked.  The free slots and the calls inside the
\* fetch section always add up to max_concurrency, so every call that took
\* a slot has given it back when it is outside, whatever the way out, and
\* with no call inside every slot is free; and, every request coming back,
\* a call waiting for a slot is eventually admitted.
C25_SlotsNeverLeak ==
    /\ [](semaphore >= 0 /\ semaphore + Cardinality(Inside) = max_conc)
    /\ [](Inside = {} => semaphore = max_conc)
    /\ \A t \in Calls : (pc[t] = "acquire") ~> (pc[t] \in InFetch \cup {"done"})

\* Witness: with one slot, two calls for the same id have both fetched
\* before any time has passed, so the second waited for the slot and got
\* it; every slot is free again.
C25_Witness ==
    \E t, u \in Calls :
        /\ t # u /\ fid[t] = fid[u] /\ now = 0 /\ max_conc = 1
        /\ t \in Fetched(fid[t]) /\ u \in Fetched(fid[t])
        /\ semaphore = max_conc

---------------------------------------------------------------------------
(* Properties of the cache *)

\* Call t resumes with a response that normalises, and stores and returns
\* the record.
StoresFetched(t) ==
    /\ pc[t] \in Got
    /\ GotNormalisable(t)
    /\ pc'[t] = "done"
    /\ cache' = [cache EXCEPT ![fid[t]] = Entry(ExtractStatus(GotBody(t)), now)]

C26_WitnessExpired ==
    \E t \in Calls :
        /\ pc[t] = "done" /\ logged[t] = "expired_cache"
        /\ cache[fid[t]] = Entry(ret[t], 0)
        /\ now > 0

---------------------------------------------------------------------------
(* Properties of the retained results under concurrent invocations *)

\* Run k returned a report and the charts made with it.
Reported(k) == audits[k].pc = "returned" /\ audits[k].result.kind = "report"

\* C27: whatever the interleaving of audit_project runs and of report:last,
\* charts:last and export_last_report requests, the retained report and the
\* retained charts are both absent or are the report and the charts of one
\* and the same run; and a run that fails validation changes neither.
C27_RetainedPairBelongsTogether ==
    /\ [](\/ /\ last_report = NoneValue
              /\ last_charts = NoneValue
              /\ retained_from = [report |-> 0, charts |-> 0]
           \/ \E k \in Runs :
                /\ Reported(k)
                /\ retained_from = [report |-> k, charts |-> k]
                /\ last_report = audits[k].result.report
                /\ last_charts = audits[k].result.charts)
    /\ [][\A k \in Runs :
            (audits[k].pc = "idle" /\ audits'[k].result.kind = "ValueError")
            => (last_report' = last_report /\ last_charts' = last_charts)]_vars

\* Witness: two runs were in flight together, the second returned before
\* the first, with a different report and different charts; a request was
\* served, and what is retained is the pair of the first run.
C27_Witness ==
    /\ finished = <<2, 1>>
    /\ Reported(1) /\ Reported(2)
    /\ audits[1].result.report # audits[2].result.report
    /\ audits[1].result.charts # audits[2].result.charts
    /\ last_charts = audits[1].result.charts
    /\ served.request = "charts:last"
    /\ served.answer = audits[2].result.charts

\* Witness: a run has failed validation after another one returned a
\* report; that report and its charts are retained.
C27_WitnessInvalid ==
    /\ Reported(1)
    /\ audits[2].pc = "raised" /\ audits[2].result.kind = "ValueError"
    /\ last_report = audits[1].result.report
    /\ last_charts = audits[1].result.charts

---------------------------------------------------------------------------
(* Properties of the classification by Analyzer and Formatter *)

\* The bucket analyze counts the feature in.
BucketOf(id) == Bucket(AggregateOf(id).status)

\* C28: Analyzer and Formatter classify every feature alike, whatever its
\* baseline_status.  In the report a feature of a bucket of analyze stands
\* before every feature of a later bucket (limited, newly, widely); and
\* each of the first three top risks gets a recommendation fitting its
\* bucket, so that with a top risk there is no positive message.
C28_ClassifiedAlike ==
    Formatted
    => LET tr == metrics.top_risks
           na == report.next_actions
           first == SubSeq(tr, 1, IF Len(tr) < 3 THEN Len(tr) ELSE 3)
       IN  /\ \A i, j \in 1..Len(all_features) :
                RankOf(BucketOf(all_features[i].feature_id))
                    < RankOf(BucketOf(all_features[j].feature_id))
                => PlaceOf(all_features[i].feature_id) < PlaceOf(all_features[j].feature_id)
           /\ Len(first) > 0 =>
                /\ Len(na) = Len(first)
                /\ \A i \in 1..Len(first) :
                     /\ ~IsPositive(na[i])
                     /\ BucketOf(first[i]) = "limited" => na[i].kind # "test"
                     /\ BucketOf(first[i]) = "newly" => na[i].kind = "test"

====
